---- MODULE Spec2Model ----
(***************************************************************************)
(* Model of the Dialogflow CX synchronization engine                       *)
(* (src/upload_to_dialogflow.py, class DialogflowUploader) against a       *)
(* remote agent holding flows, pages, intents and webhooks, and of the     *)
(* sheet compiler (src/csv_to_dialogflow_json.py).                         *)
(*                                                                         *)
(* SpecApi    : one call of _api_request against every three-attempt       *)
(*              script of endpoint behaviour.                              *)
(* SpecUpsert : the public upsert methods called one after another.        *)
(* SpecUpload : upload_single_flow and upload_bulk, step by step.          *)
(* SpecRoute  : the composition of one route payload, for every route.     *)
(* SpecNextPages : parse_next_pages on every cell and chip count.          *)
(* SpecCompile   : convert_single_csv, one row of the frame per step, then *)
(*                 the second pass.                                        *)
(* SpecDangling  : upload_single_flow on a document whose routes name a    *)
(*                 page or an intent it lacks.                             *)
(* SpecShared    : uploads of two flows that declare the same intent name. *)
(* SpecChips     : parse_chips on every cell.                              *)
(* SpecDispatch  : Dispatcher.dispatch (src/dispatcher/app.py) on every    *)
(*                 request body.                                           *)
(* SpecSanitize  : sanitize on every value, and on its own result.         *)
(* SpecPipeline  : DialogflowAutomation.run from the upload phase to the   *)
(*                 report.                                                 *)
(* The engine specifications run against the remote agent with a bounded   *)
(* number of remote calls that misbehave.                                  *)
(***************************************************************************)
EXTENDS Integers, Sequences, FiniteSets, TLC

\* ------------------------------------------------------------------------
\* Bounds
\* ------------------------------------------------------------------------
\* largest Retry-After value (seconds) a 429 response carries in the model
MaxRetryAfter == 1
\* largest token generation an _api_request call starts with
MaxTok == 2

\* ------------------------------------------------------------------------
\* HTTP attempts: what the endpoint does to one requests.request(...) call
\* ------------------------------------------------------------------------
\* st = 0 stands for a transport failure (requests raises, no response)
TRANSPORT == 0
RaAbsent == -1        \* response without a Retry-After header
RaDate == -2          \* Retry-After given as an HTTP-date, not as seconds

Att(st, rf, ra, js) == [st |-> st, rf |-> rf, ra |-> ra, js |-> js]

\* rf: whether the credential refresh that follows a 401 succeeds
\* ra: the Retry-After header of a 429
\* js: whether the body of a 429 parses as a JSON object
Attempts ==
    {Att(200, TRUE, RaAbsent, TRUE), Att(400, TRUE, RaAbsent, TRUE),
     Att(500, TRUE, RaAbsent, TRUE), Att(TRANSPORT, TRUE, RaAbsent, TRUE)}
    \cup {Att(401, rf, RaAbsent, TRUE) : rf \in BOOLEAN}
    \cup {Att(429, TRUE, ra, js) :
            ra \in {RaAbsent, RaDate} \cup (1..MaxRetryAfter), js \in BOOLEAN}

max_retries == 3

Scripts3 == [1..max_retries -> Attempts]

IsError(st) == st = TRANSPORT \/ st >= 400

\* events of one call, in order
EvRequest(tok) == [e |-> "request", v |-> tok]
EvSleep(secs) == [e |-> "sleep", v |-> secs]
EvRefresh == [e |-> "refresh", v |-> 0]

\* result of a call that raises / returns
Raise(acc, err, st) == [acc EXCEPT !.kind = "raise", !.err = err, !.st = st]
Return(acc, a) == [acc EXCEPT !.kind = "return", !.err = "none", !.st = a.st, !.js = a.js]

\* the retry_after the code computes: int(headers.get('Retry-After', 5))
retry_after(a) == IF a.ra = RaAbsent THEN 5 ELSE a.ra

\* a backoff of the same length before every retry
backoff_flat(attempt) == 2

\* line 73: time.sleep(2 ** attempt)
backoff(attempt) == 2 ^ attempt

\* a refresh that leaves the old headers in place
refresh_auth_stale(acc) == [acc EXCEPT !.ev = Append(@, EvRefresh)]

\* DialogflowUploader._refresh_auth: self.headers gets a new bearer token
refresh_auth(acc) == [acc EXCEPT !.tok = @ + 1, !.ev = Append(@, EvRefresh)]

\* DialogflowUploader._api_request: the loop over range(max_retries), started
\* at attempt, with acc the call's record so far.  last is the most recent
\* response object bound to the local variable response.
RECURSIVE api_loop(_, _, _, _)
api_loop(script, attempt, last, acc) ==
    IF attempt = max_retries
    THEN Return(acc, last)                                  \* line 102
    ELSE
      LET a == script[attempt + 1]
          ev0 == IF attempt > 0 THEN Append(acc.ev, EvSleep(backoff(attempt))) ELSE acc.ev
          acc1 == [acc EXCEPT !.ev = Append(ev0, EvRequest(acc.tok)), !.n = @ + 1]
      IN  IF a.st = TRANSPORT
          THEN IF attempt = max_retries - 1
               THEN Raise(acc1, "transport", a.st)
               ELSE api_loop(script, attempt + 1, last, acc1)
          ELSE IF a.st = 401 /\ attempt < max_retries - 1
          THEN IF a.rf
               THEN api_loop(script, attempt + 1, a, refresh_auth(acc1))
               ELSE Raise(acc1, "refresh", a.st)
          ELSE IF a.st = 429
          THEN IF a.ra = RaDate
               THEN Raise(acc1, "value", a.st)
               ELSE api_loop(script, attempt + 1, a,
                        [acc1 EXCEPT !.ev = Append(@, EvSleep(retry_after(a)))])
          ELSE IF IsError(a.st)
          THEN IF attempt = max_retries - 1
               THEN Raise(acc1, "http", a.st)
               ELSE api_loop(script, attempt + 1, a, acc1)
          ELSE Return(acc1, a)

NoResponse == Att(TRANSPORT, TRUE, RaAbsent, TRUE)

api_request(script, tok) ==
    api_loop(script, 0, NoResponse,
             [kind |-> "none", err |-> "none", st |-> 0, js |-> TRUE,
              n |-> 0, tok |-> tok, ev |-> << >>])

\* ------------------------------------------------------------------------
\* Remote agent and engine state, passed through the handlers as one record
\*   remote : [flows, pages, intents, webhooks], each a sequence of
\*            resources in creation order; a resource's identifier (its
\*            "name" in the REST API) is its position in the sequence
\*   cache  : self.cache, display name (or cache key) -> identifier
\*   tok    : generation of the bearer token held in self.headers
\*   reqs   : the remote calls issued by the current top-level operation
\*   faults : number of remote calls so far that were not answered 200 at once
\* ------------------------------------------------------------------------
None == ""             \* Python None / empty string (both falsy)
NoId == 0              \* absent resource identifier (falsy)

Max(S) == CHOOSE x \in S : \A y \in S : y <= x

\* a script answering the first attempt with 200
OkScript == [i \in 1..max_retries |-> Att(200, TRUE, RaAbsent, TRUE)]

Req(m, coll, id, flow, mask, body) ==
    [m |-> m, coll |-> coll, id |-> id, flow |-> flow, mask |-> mask, body |-> body]

\* the resource the platform creates for a POST body
Created(coll, flow, body) ==
    CASE coll = "flows" ->
            [displayName |-> body.displayName, transitionRoutes |-> << >>]
      [] coll = "webhooks" ->
            [displayName |-> body.displayName, genericWebService |-> body.genericWebService]
      [] coll = "intents" ->
            [displayName |-> body.displayName, trainingPhrases |-> body.trainingPhrases]
      [] coll = "pages" ->
            [flow |-> flow, displayName |-> body.displayName,
             entryFulfillment |-> body.entryFulfillment, transitionRoutes |-> << >>]

\* the platform's PATCH: the fields named by updateMask are replaced by the
\* body's, every other field of the resource is kept
Patched(res, mask, body) ==
    [f \in DOMAIN res |-> IF f \in mask THEN body[f] ELSE res[f]]

\* effect of a request the platform answered 200
Apply(remote, m, coll, id, flow, mask, body) ==
    IF m = "POST"
    THEN [remote EXCEPT ![coll] = Append(@, Created(coll, flow, body))]
    ELSE IF m = "PATCH"
    THEN [remote EXCEPT ![coll][id] = Patched(@, mask, body)]
    ELSE remote

\* one self._api_request(method, url, ...) against the platform.  A mutating
\* request takes effect on the attempt the platform answers 200.
remote_call(S, m, coll, id, flow, mask, body, script) ==
    LET answered(res) ==
            LET S1 == [S EXCEPT !.tok = res.tok,
                                !.reqs = Append(@, Req(m, coll, id, flow, mask, body)),
                                !.faults = @ + (IF script = OkScript THEN 0 ELSE 1)]
            IN  [s |-> IF res.kind = "return" /\ res.st = 200
                       THEN [S1 EXCEPT !.remote = Apply(@, m, coll, id, flow, mask, body)]
                       ELSE S1,
                 ok |-> res.kind = "return",
                 st |-> IF res.kind = "raise" THEN -1 ELSE res.st,
                 js |-> res.js,
                 val |-> IF m = "POST" THEN Len(S.remote[coll]) + 1 ELSE NoId]
    IN  answered(api_request(script, S.tok))

\* the items a list call returns: positions of the collection's resources
\* (of the pages of one flow when flow # NoId)
Listed(remote, coll, flow) ==
    {i \in DOMAIN remote[coll] :
        coll = "pages" => remote[coll][i].flow = flow}

\* {item["displayName"]: item for item in ...}: a later item replaces an
\* earlier one of the same display name
IndexByName(remote, items) ==
    [nm \in {remote[i].displayName : i \in items} |->
        Max({i \in items : remote[i].displayName = nm})]

EmptyIndex == [nm \in {} |-> NoId]

\* DialogflowUploader.list_by_name
\* a returned 429 response has no items when its body is a JSON object and
\* makes resp.json() raise otherwise
list_by_name(S, coll, flow, script) ==
    LET items(r) ==
            IF ~r.ok THEN [s |-> r.s, ok |-> FALSE, val |-> EmptyIndex]
            ELSE IF r.st = 200
            THEN [s |-> r.s, ok |-> TRUE,
                  val |-> IndexByName(S.remote[coll], Listed(S.remote, coll, flow))]
            ELSE [s |-> r.s, ok |-> r.js, val |-> EmptyIndex]
    IN  items(remote_call(S, "GET", coll, NoId, flow, {}, None, script))

\* resp.json()["name"] of a create: raises on a response that is not a 200
created_name(r) == [s |-> r.s, ok |-> r.ok /\ r.st = 200, val |-> r.val]

Fail(S) == [s |-> S, ok |-> FALSE, val |-> NoId]
Ok(S, v) == [s |-> S, ok |-> TRUE, val |-> v]

\* dict.get(k): None when the key is missing
Get(f, k) == IF k \in DOMAIN f THEN f[k] ELSE NoId

Put(f, k, v) == [x \in DOMAIN f \cup {k} |-> IF x = k THEN v ELSE f[x]]

\* upsert_flow without its cache lookup (lines 112-113 left out)
upsert_flow_nocache(S, display_name, s1, s2) ==
    LET store(r) ==
            IF ~r.ok THEN Fail(r.s)
            ELSE Ok([r.s EXCEPT !.cache.flows = Put(@, display_name, r.val)], r.val)
        lookup(flows) ==
            IF ~flows.ok THEN Fail(flows.s)
            ELSE IF display_name \in DOMAIN flows.val
            THEN store(Ok(flows.s, flows.val[display_name]))
            ELSE store(created_name(
                     remote_call(flows.s, "POST", "flows", NoId, NoId, {},
                                 [displayName |-> display_name], s2)))
    IN  lookup(list_by_name(S, "flows", NoId, s1))

\* DialogflowUploader.upsert_flow
upsert_flow(S, display_name, s1, s2) ==
    IF display_name \in DOMAIN S.cache.flows
    THEN Ok(S, S.cache.flows[display_name])
    ELSE
      LET store(r) ==
              IF ~r.ok THEN Fail(r.s)
              ELSE Ok([r.s EXCEPT !.cache.flows = Put(@, display_name, r.val)], r.val)
          lookup(flows) ==
              IF ~flows.ok THEN Fail(flows.s)
              ELSE IF display_name \in DOMAIN flows.val
              THEN store(Ok(flows.s, flows.val[display_name]))
              ELSE store(created_name(
                       remote_call(flows.s, "POST", "flows", NoId, NoId, {},
                                   [displayName |-> display_name], s2)))
      IN  lookup(list_by_name(S, "flows", NoId, s1))

\* cache_key = f"{display_name}::{uri}", names and URIs being token sequences
cache_key(display_name, uri) == display_name \o <<"::">> \o uri

webhook_payload(display_name, uri, headers_map) ==
    [displayName |-> display_name,
     genericWebService |-> IF headers_map # << >>
                           THEN [uri |-> uri, requestHeaders |-> headers_map]
                           ELSE [uri |-> uri, requestHeaders |-> << >>]]

\* upsert_webhook bringing a webhook it finds up to the requested URI and
\* headers with a PATCH
upsert_webhook_overwrite(S, display_name, uri, headers_map, s1, s2) ==
    IF cache_key(display_name, uri) \in DOMAIN S.cache.webhooks
    THEN Ok(S, S.cache.webhooks[cache_key(display_name, uri)])
    ELSE
      LET payload == webhook_payload(display_name, uri, headers_map)
          store(r) ==
              IF ~r.ok THEN Fail(r.s)
              ELSE Ok([r.s EXCEPT !.cache.webhooks =
                            Put(@, cache_key(display_name, uri), r.val)], r.val)
          patched(p, id) == IF p.ok THEN Ok(p.s, id) ELSE Fail(p.s)
          lookup(hooks) ==
              IF ~hooks.ok THEN Fail(hooks.s)
              ELSE IF display_name \in DOMAIN hooks.val
              THEN store(patched(
                       remote_call(hooks.s, "PATCH", "webhooks",
                                   hooks.val[display_name], NoId,
                                   {"genericWebService"},
                                   [genericWebService |-> payload.genericWebService],
                                   s2),
                       hooks.val[display_name]))
              ELSE store(created_name(
                       remote_call(hooks.s, "POST", "webhooks", NoId, NoId, {},
                                   payload, s2)))
      IN  lookup(list_by_name(S, "webhooks", NoId, s1))

\* DialogflowUploader.upsert_webhook
upsert_webhook(S, display_name, uri, headers_map, s1, s2) ==
    IF cache_key(display_name, uri) \in DOMAIN S.cache.webhooks
    THEN Ok(S, S.cache.webhooks[cache_key(display_name, uri)])
    ELSE
      LET store(r) ==
              IF ~r.ok THEN Fail(r.s)
              ELSE Ok([r.s EXCEPT !.cache.webhooks =
                            Put(@, cache_key(display_name, uri), r.val)], r.val)
          lookup(hooks) ==
              IF ~hooks.ok THEN Fail(hooks.s)
              ELSE IF display_name \in DOMAIN hooks.val
              THEN store(Ok(hooks.s, hooks.val[display_name]))
              ELSE store(created_name(
                       remote_call(hooks.s, "POST", "webhooks", NoId, NoId, {},
                                   webhook_payload(display_name, uri, headers_map),
                                   s2)))
      IN  lookup(list_by_name(S, "webhooks", NoId, s1))

\* [{"repeatCount": 1, "parts": [{"text": tp}]} for tp in training_phrases if tp]
\* (a phrase object is represented by its text)
phrase_objs(training_phrases) == SelectSeq(training_phrases, LAMBDA tp : tp # None)

\* DialogflowUploader.upsert_intent; intents_index = EmptyIndex stands for
\* both None and {} (the code tests "not intents_index")
upsert_intent(S, display_name, training_phrases, intents_index, s1, s2) ==
    LET body == [displayName |-> display_name,
                 trainingPhrases |-> phrase_objs(training_phrases)]
        patched(r, id) == IF r.ok THEN Ok(r.s, id) ELSE Fail(r.s)
        lookup(listed) ==
            IF ~listed.ok THEN Fail(listed.s)
            ELSE IF display_name \in DOMAIN listed.val
            THEN patched(remote_call(listed.s, "PATCH", "intents",
                                     listed.val[display_name], NoId,
                                     {"trainingPhrases"},
                                     [trainingPhrases |-> body.trainingPhrases], s2),
                         listed.val[display_name])
            ELSE created_name(remote_call(listed.s, "POST", "intents", NoId, NoId, {},
                                          body, s2))
    IN  lookup(IF DOMAIN intents_index = {}
               THEN list_by_name(S, "intents", NoId, s1)
               ELSE Ok(S, intents_index))

\* the entry fulfillment upsert_page builds: a text message when there are
\* prompts, a chips rich-content message when there are chips
entry_fulfillment(prompts, chips) ==
    [messages |->
        (IF prompts # << >> THEN <<[kind |-> "text", v |-> prompts]>> ELSE << >>)
        \o (IF chips # << >> THEN <<[kind |-> "chips", v |-> chips]>> ELSE << >>)]

\* upsert_page creating the page without looking its name up
upsert_page_create(S, flow, display_name, prompts, chips, pages_index, s1, s2) ==
    created_name(remote_call(S, "POST", "pages", NoId, flow, {},
                             [displayName |-> display_name,
                              entryFulfillment |-> entry_fulfillment(prompts, chips)],
                             s2))

\* DialogflowUploader.upsert_page (is_end_state is used by no statement)
upsert_page(S, flow, display_name, prompts, chips, pages_index, s1, s2) ==
    LET body == [displayName |-> display_name,
                 entryFulfillment |-> entry_fulfillment(prompts, chips)]
        patched(r, id) == IF r.ok THEN Ok(r.s, id) ELSE Fail(r.s)
        lookup(listed) ==
            IF ~listed.ok THEN Fail(listed.s)
            ELSE IF display_name \in DOMAIN listed.val
            THEN patched(remote_call(listed.s, "PATCH", "pages",
                                     listed.val[display_name], flow,
                                     {"entryFulfillment"},
                                     [entryFulfillment |-> body.entryFulfillment], s2),
                         listed.val[display_name])
            ELSE created_name(remote_call(listed.s, "POST", "pages", NoId, flow, {},
                                          body, s2))
    IN  lookup(IF DOMAIN pages_index = {}
               THEN list_by_name(S, "pages", flow, s1)
               ELSE Ok(S, pages_index))

\* DialogflowUploader.patch_flow_start_route
patch_flow_start_route(S, flow, first_page_name, s1, s2) ==
    LET patched(r) == IF r.ok THEN Ok(r.s, NoId) ELSE Fail(r.s)
        lookup(pages) ==
            LET target == Get(pages.val, first_page_name)
                body == [transitionRoutes |->
                            <<[condition |-> "true", targetPage |-> target]>>]
            IN  IF ~pages.ok THEN Fail(pages.s)
                ELSE IF target = NoId THEN Fail(pages.s)         \* RuntimeError
                ELSE patched(remote_call(pages.s, "PATCH", "flows", flow, NoId,
                                         {"transitionRoutes"}, body, s2))
    IN  lookup(list_by_name(S, "pages", flow, s1))

\* ------------------------------------------------------------------------
\* Graph documents (the JSON files upload_single_flow reads)
\* ------------------------------------------------------------------------
Page(name, prompts, chips) == [name |-> name, prompts |-> prompts, chips |-> chips]
Intent(name, tp) == [name |-> name, training_phrases |-> tp]
Route(page, intent, next_page, webhook_action, parameters) ==
    [page |-> page, intent |-> intent, next_page |-> next_page,
     webhook_action |-> webhook_action, parameters |-> parameters]

Doc(pages, intents, routes, end_pages, first_page, webhooks) ==
    [loads |-> TRUE, pages |-> pages, intents |-> intents, routes |-> routes,
     end_pages |-> end_pages, first_page |-> first_page, webhooks |-> webhooks]

\* P1 --I1--> P2, the route carrying a webhook action and a parameter
DocLinked ==
    Doc(<<Page("P1", <<"hi">>, <<"yes">>), Page("P2", <<"bye">>, << >>)>>,
        <<Intent("I1", <<"yes">>)>>,
        <<Route("P1", "I1", "P2", "tag", <<<<"k", "v">>>>)>>,
        {"P2"}, "P1", {"tag"})

\* the same pages, P1 now an end state: its only route has no target
DocEnded ==
    Doc(<<Page("P1", <<"hi">>, <<"yes">>), Page("P2", <<"bye">>, << >>)>>,
        <<Intent("I1", <<"yes">>)>>,
        <<Route("P1", "I1", None, None, << >>)>>,
        {"P1", "P2"}, "P1", {})

\* a file that does not load as a JSON object
DocBroken == [Doc(<< >>, << >>, << >>, {}, None, {}) EXCEPT !.loads = FALSE]

\* P1 --I1--> P3, P1 --I2--> P2 and P2 --I1--> P3, where the document has no
\* page P3; the webhooks table names a tag no route carries
DocDangling ==
    Doc(<<Page("P1", <<"hi">>, <<"yes">>), Page("P2", <<"bye">>, << >>)>>,
        <<Intent("I1", <<"yes">>), Intent("I2", <<"no">>)>>,
        <<Route("P1", "I1", "P3", None, << >>), Route("P1", "I2", "P2", None, << >>),
          Route("P2", "I1", "P3", None, << >>)>>,
        {}, "P1", {"tag"})

\* one page, nothing else
DocSolo ==
    Doc(<<Page("P1", <<"solo">>, << >>)>>, << >>, << >>, {"P1"}, "P1", {})

\* the documents a file of the model may hold.  DocUndeclared is
\* P1 --I9--> P1 where the document declares no intent I9; DocShared is
\* P1 --I1--> P1 with the intent I1 declared with a phrase of its own.
Contents(json_path) ==
    LET DocUndeclared ==
            Doc(<<Page("P1", <<"hi">>, << >>)>>, << >>,
                <<Route("P1", "I9", "P1", None, << >>)>>, {}, "P1", {})
        DocShared ==
            Doc(<<Page("P1", <<"hi">>, << >>)>>, <<Intent("I1", <<"maybe">>)>>,
                <<Route("P1", "I1", "P1", None, << >>)>>, {}, "P1", {})
    IN  CASE json_path = "dialogflow_f1.json" -> {DocLinked, DocEnded, DocBroken}
          [] json_path = "dialogflow_f2.json" -> {DocSolo, DocBroken}
          [] json_path = "dialogflow_f3.json" ->
                {DocDangling, DocLinked, DocSolo, DocUndeclared}
          [] json_path = "dialogflow_f4.json" -> {DocShared}

\* Path(json_path).stem.replace("dialogflow_", "").replace("_", " ").title()
\* evaluated on the model's files
derived_flow_name(json_path) ==
    CASE json_path = "dialogflow_f1.json" -> "F1"
      [] json_path = "dialogflow_f2.json" -> "F2"
      [] json_path = "dialogflow_f3.json" -> "F3"
      [] json_path = "dialogflow_f4.json" -> "F4"

\* the engine's configuration (constructor arguments)
dispatcher_url == <<"https://d1">>
dispatcher_header == <<"K", "=", "V">>
Dispatcher == <<"Dispatcher">>

\* k, v = header.split("=", 1); {k.strip(): v.strip()} when "=" occurs in
\* the header, else no headers (the header is a sequence of tokens)
headers_map(header) ==
    IF \E i \in DOMAIN header : header[i] = "="
    THEN LET i == CHOOSE j \in DOMAIN header :
                     header[j] = "=" /\ \A k \in 1..(j - 1) : header[k] # "="
         IN  <<<<SubSeq(header, 1, i - 1), SubSeq(header, i + 1, Len(header))>>>>
    ELSE << >>

\* lines 299-307: the routes with a next page, grouped by owning page, pages
\* in order of first appearance
valid_routes(doc) == SelectSeq(doc.routes, LAMBDA r : r.next_page # None)

RECURSIVE Distinct(_)
Distinct(seq) ==
    IF seq = << >> THEN << >>
    ELSE LET rest == Distinct(SubSeq(seq, 1, Len(seq) - 1))
             x == seq[Len(seq)]
         IN  IF \E i \in DOMAIN rest : rest[i] = x THEN rest ELSE Append(rest, x)

routes_by_page_keys(doc) ==
    Distinct([i \in DOMAIN valid_routes(doc) |-> valid_routes(doc)[i].page])

routes_of(doc, page) == SelectSeq(valid_routes(doc), LAMBDA r : r.page = page)

\* the triggerFulfillment added whenever has_webhook or has_params holds,
\* without the test that trig has content
trigger_fulfillment_unchecked(r, dispatcher_name) ==
    LET has_webhook == r.webhook_action # None /\ dispatcher_name # NoId
        has_params == \E i \in DOMAIN r.parameters : r.parameters[i][2] # None
        param_actions ==
            SelectSeq(r.parameters, LAMBDA kv : kv[1] # None /\ kv[2] # None)
        trig == [webhook |-> IF has_webhook THEN dispatcher_name ELSE NoId,
                 tag |-> IF has_webhook THEN r.webhook_action ELSE None,
                 setParameterActions |-> IF has_params THEN param_actions ELSE << >>]
    IN  IF has_webhook \/ has_params THEN <<trig>> ELSE << >>

\* lines 339-368: the triggerFulfillment of one route, << >> when the route
\* payload gets none
trigger_fulfillment(r, dispatcher_name) ==
    LET has_webhook == r.webhook_action # None /\ dispatcher_name # NoId
        has_params == \E i \in DOMAIN r.parameters : r.parameters[i][2] # None
        param_actions ==
            SelectSeq(r.parameters, LAMBDA kv : kv[1] # None /\ kv[2] # None)
        trig == [webhook |-> IF has_webhook THEN dispatcher_name ELSE NoId,
                 tag |-> IF has_webhook THEN r.webhook_action ELSE None,
                 setParameterActions |-> IF has_params THEN param_actions ELSE << >>]
    IN  IF (has_webhook \/ has_params)
           /\ (has_webhook \/ trig.setParameterActions # << >>)
        THEN <<trig>> ELSE << >>

\* the routes composed up to the first one whose target page is unknown
transition_routes_stop(routes, page_name_to_id, intent_name_to_id, dispatcher_name) ==
    LET RECURSIVE upto(_)
        upto(rs) ==
            IF rs = << >> THEN << >>
            ELSE IF Get(page_name_to_id, Head(rs).next_page) = NoId THEN << >>
            ELSE <<[intent |-> Get(intent_name_to_id, Head(rs).intent),
                    targetPage |-> Get(page_name_to_id, Head(rs).next_page),
                    triggerFulfillment |->
                        trigger_fulfillment(Head(rs), dispatcher_name)]>>
                 \o upto(Tail(rs))
    IN  upto(routes)

\* lines 321-370: the transition routes composed for one owning page
RECURSIVE transition_routes(_, _, _, _)
transition_routes(routes, page_name_to_id, intent_name_to_id, dispatcher_name) ==
    IF routes = << >> THEN << >>
    ELSE
      LET r == Head(routes)
          rest == transition_routes(Tail(routes), page_name_to_id,
                                    intent_name_to_id, dispatcher_name)
          target_page_ref == Get(page_name_to_id, r.next_page)
      IN  IF r.next_page = None \/ target_page_ref = NoId THEN rest
          ELSE <<[intent |-> Get(intent_name_to_id, r.intent),
                  targetPage |-> target_page_ref,
                  triggerFulfillment |->
                      trigger_fulfillment(r, dispatcher_name)]>> \o rest

\* ------------------------------------------------------------------------
\* State
\* ------------------------------------------------------------------------
VARIABLES
    call,       \* SpecApi: the script and the result of the _api_request call made
    remote,     \* the remote agent: [flows, pages, intents, webhooks]
    cache,      \* self.cache: [flows, webhooks]
    tok,        \* generation of the bearer token in self.headers
    reqs,       \* remote calls issued by the current / last top-level operation
    faults,     \* remote calls so far that were not answered 200 at once
    up,         \* upload_single_flow in progress: position and local variables
    bulk,       \* upload_bulk in progress: files left, successes, failures
    ret,        \* outcome of the current / last top-level operation
    conv        \* convert_single_csv in progress: rows read, output structure

vars == <<call, remote, cache, tok, reqs, faults, up, bulk, ret, conv>>

\* number of remote calls in one behaviour that may be answered otherwise
\* than by an immediate 200
MaxFaults == 1

\* no conversion in progress
ConvOff == [pc |-> "off"]

\* endpoint behaviours the engine's remote calls are run against: answered
\* at once, rate-limited on every attempt, failing on every attempt
EngineScripts ==
    LET Limited(js) == [i \in 1..max_retries |-> Att(429, TRUE, RaAbsent, js)]
        Broken == [i \in 1..max_retries |-> Att(500, TRUE, RaAbsent, TRUE)]
    IN  {OkScript, Limited(TRUE), Limited(FALSE), Broken}

EmptyAgent == [flows |-> << >>, pages |-> << >>, intents |-> << >>, webhooks |-> << >>]

\* an agent that already holds flow F1 with page P1 (routed to itself),
\* intent I1 and a Dispatcher webhook with another target
SeededAgent ==
    [flows |-> <<[displayName |-> "F1", transitionRoutes |-> << >>]>>,
     pages |-> <<[flow |-> 1, displayName |-> "P1",
                  entryFulfillment |-> entry_fulfillment(<<"old">>, << >>),
                  transitionRoutes |-> <<[intent |-> 1, targetPage |-> 1,
                                          triggerFulfillment |-> << >>]>>]>>,
     intents |-> <<[displayName |-> "I1", trainingPhrases |-> <<"old">>]>>,
     webhooks |-> <<[displayName |-> Dispatcher,
                     genericWebService |-> [uri |-> <<"https://d2">>,
                                            requestHeaders |-> << >>]]>>]

EmptyCache == [flows |-> EmptyIndex, webhooks |-> EmptyIndex]

Idle == [pc |-> "idle", json_path |-> None, doc |-> DocBroken, flow_name |-> None,
         flow |-> NoId, dispatcher_name |-> NoId,
         intents_index |-> EmptyIndex, pages_index |-> EmptyIndex,
         page_name_to_id |-> EmptyIndex, intent_name_to_id |-> EmptyIndex, i |-> 1,
         again |-> FALSE, failed |-> FALSE]

\* json_files: the files found; files: those the loop has not reached yet
BulkOff == [state |-> "off", json_files |-> << >>, files |-> << >>,
            successes |-> << >>, failures |-> << >>]

NoCall == [script |-> << >>, res |-> [kind |-> "none"]]

Ret(op, arg, kind, ok, val) == [op |-> op, arg |-> arg, kind |-> kind, ok |-> ok, val |-> val]

St == [remote |-> remote, cache |-> cache, tok |-> tok, reqs |-> reqs, faults |-> faults]
Fresh == [St EXCEPT !.reqs = << >>]

\* the scripts chosen for a step stay within the fault budget
NonOk(script) == IF script = OkScript THEN 0 ELSE 1
Budget(s1, s2) == faults + NonOk(s1) + NonOk(s2) <= MaxFaults

Commit(S) ==
    /\ S.faults <= MaxFaults
    /\ remote' = S.remote
    /\ cache' = S.cache
    /\ tok' = S.tok
    /\ reqs' = S.reqs
    /\ faults' = S.faults

InitWith(agents) ==
    /\ call = NoCall
    /\ remote \in agents
    /\ cache = EmptyCache
    /\ tok = 0
    /\ reqs = << >>
    /\ faults = 0
    /\ up = Idle
    /\ bulk = BulkOff
    /\ ret = Ret("none", None, "return", TRUE, NoId)
    /\ conv = ConvOff

\* the caller is main() or a test driving the engine's public methods
Quiet == up.pc = "idle" /\ bulk.state = "off"

\* a public upsert_* method called on its own
Called(op, arg, r) ==
    /\ Commit(r.s)
    /\ ret' = Ret(op, arg, IF r.ok THEN "return" ELSE "raise", r.ok, r.val)
    /\ UNCHANGED <<call, up, bulk>>

UpsertFlow ==
    /\ Quiet
    /\ \E display_name \in {"F1"}, s1, s2 \in EngineScripts :
          /\ Budget(s1, s2)
          /\ \E r \in {upsert_flow(Fresh, display_name, s1, s2)} :
                Called("upsert_flow", display_name, r)
    /\ UNCHANGED conv

UpsertWebhook ==
    /\ Quiet
    /\ \E uri \in {dispatcher_url, <<"https://d2">>}, hm \in {headers_map(dispatcher_header)},
          s1, s2 \in EngineScripts :
          /\ Budget(s1, s2)
          /\ \E r \in {upsert_webhook(Fresh, Dispatcher, uri, hm, s1, s2)} :
                Called("upsert_webhook", <<Dispatcher, uri, hm>>, r)
    /\ UNCHANGED conv

UpsertIntent ==
    /\ Quiet
    /\ \E tp \in {<<"yes">>, <<"yes", None, "no">>}, s1, s2 \in EngineScripts :
          /\ Budget(s1, s2)
          /\ \E r \in {upsert_intent(Fresh, "I1", tp, EmptyIndex, s1, s2)} :
                Called("upsert_intent", <<"I1", tp>>, r)
    /\ UNCHANGED conv

\* the flows upsert_page is called for: those this engine resolved for F1
PageFlows == {cache.flows[nm] : nm \in DOMAIN cache.flows \cap {"F1"}}

UpsertPage ==
    /\ Quiet
    /\ \E flow \in PageFlows, pg \in {DocLinked.pages[1], DocSolo.pages[1]},
          s1, s2 \in EngineScripts :
          /\ Budget(s1, s2)
          /\ \E r \in {upsert_page(Fresh, flow, pg.name, pg.prompts, pg.chips,
                                    EmptyIndex, s1, s2)} :
                Called("upsert_page", <<flow, pg.name>>, r)
    /\ UNCHANGED conv

\* patch_flow_start_route called for a first page the flow has or lacks
PatchFlowStartRoute ==
    /\ Quiet
    /\ \E flow \in PageFlows, first_page_name \in {"P1", "P2"},
          s1, s2 \in EngineScripts :
          /\ Budget(s1, s2)
          /\ \E r \in {patch_flow_start_route(Fresh, flow, first_page_name, s1, s2)} :
                Called("patch_flow_start_route", <<flow, first_page_name>>, r)
    /\ UNCHANGED conv

\* a new run: DialogflowUploader.__init__ builds an engine with an empty cache
NewEngine ==
    /\ Quiet
    /\ cache # EmptyCache
    /\ cache' = EmptyCache
    /\ tok' = 0
    /\ reqs' = << >>
    /\ ret' = Ret("init", None, "return", TRUE, NoId)
    /\ UNCHANGED <<call, remote, faults, up, bulk>>
    /\ UNCHANGED conv

\* ------------------------------------------------------------------------
\* upload_single_flow, one step per stage of the method
\* ------------------------------------------------------------------------
\* the file an upload reads and the document it holds; again records that
\* the call before it was a successful upload of the same file and document
UpArg(u) == [json_path |-> u.json_path, doc |-> u.doc, again |-> u.again]

\* an except clause that passes the exception on
caught_reraise(S, u) == Ret("upload_single_flow", UpArg(u), "raise", FALSE, "error")

\* lines 390-392: the except clause turns any exception into (False, message)
caught(S, u) == Ret("upload_single_flow", UpArg(u), "return", FALSE, "error")

\* line 388
uploaded(S, u) == Ret("upload_single_flow", UpArg(u), "return", TRUE, u.flow_name)

Running(u) == Ret("upload_single_flow", UpArg(u), "running", FALSE, None)

\* position after a step: loops over no (more) items are passed over
RECURSIVE settle(_)
settle(u) ==
    IF u.pc = "pages" /\ u.i > Len(u.doc.pages)
    THEN settle([u EXCEPT !.pc = "intents", !.i = 1])
    ELSE IF u.pc = "intents" /\ u.i > Len(u.doc.intents)
    THEN settle([u EXCEPT !.pc = "routes", !.i = 1])
    ELSE IF u.pc = "routes" /\ u.i > Len(routes_by_page_keys(u.doc))
    THEN [u EXCEPT !.pc = "start", !.i = 1]
    ELSE u

\* the step ends the upload with an exception (ok = FALSE) or goes on as u;
\* failed records that a request of the upload was not answered 200
Step(r, u) ==
    /\ Commit(r.s)
    /\ IF r.ok
       THEN /\ up' = settle([u EXCEPT !.failed = @ \/ r.s.faults > faults])
            /\ ret' = Running(u)
       ELSE up' = Idle /\ ret' = caught(r.s, u)
    /\ UNCHANGED call

\* lines 227-246: load the document, derive the flow name, upsert the flow;
\* paths are the files the caller may pass
UploadBegin(paths) ==
    /\ up.pc = "idle"
    /\ bulk.state \in {"off", "run"}
    /\ \E json_path \in paths, s1, s2 \in EngineScripts :
        \E doc \in Contents(json_path) :
          LET flow_name == derived_flow_name(json_path)
              again == /\ ret.op = "upload_single_flow" /\ ret.kind = "return"
                       /\ ret.ok
                       /\ ret.arg.json_path = json_path /\ ret.arg.doc = doc
          IN  /\ Budget(s1, s2)
              /\ bulk.state = "run" =>
                    bulk.files # << >> /\ json_path = Head(bulk.files)
              /\ \E r \in {IF doc.loads THEN upsert_flow(Fresh, flow_name, s1, s2)
                            ELSE Fail(Fresh)} :
                    Step(r, [Idle EXCEPT !.pc = "webhook", !.json_path = json_path,
                                         !.doc = doc, !.flow_name = flow_name,
                                         !.flow = r.val, !.again = again])
              /\ bulk' = IF bulk.state = "run"
                         THEN [bulk EXCEPT !.state = "wait"] ELSE bulk
    /\ UNCHANGED conv

\* the dispatcher webhook set up only when a route carries a webhook action
UploadWebhook_routes_only ==
    /\ up.pc = "webhook"
    /\ \E s1, s2 \in EngineScripts :
          LET has_webhooks ==
                  \E i \in DOMAIN up.doc.routes : up.doc.routes[i].webhook_action # None
          IN  /\ Budget(s1, s2)
              /\ \E r \in {IF has_webhooks
                            THEN upsert_webhook(St, Dispatcher, dispatcher_url,
                                                headers_map(dispatcher_header), s1, s2)
                            ELSE Ok(St, NoId)} :
                    Step(r, [up EXCEPT !.pc = "lists", !.dispatcher_name = r.val])
    /\ UNCHANGED bulk
    /\ UNCHANGED conv

\* lines 248-262: the shared dispatcher webhook
UploadWebhook ==
    /\ up.pc = "webhook"
    /\ \E s1, s2 \in EngineScripts :
          LET has_webhooks ==
                  \E i \in DOMAIN up.doc.routes : up.doc.routes[i].webhook_action # None
          IN  /\ Budget(s1, s2)
              /\ \E r \in {IF has_webhooks \/ up.doc.webhooks # {}
                            THEN upsert_webhook(St, Dispatcher, dispatcher_url,
                                                headers_map(dispatcher_header), s1, s2)
                            ELSE Ok(St, NoId)} :
                    Step(r, [up EXCEPT !.pc = "lists", !.dispatcher_name = r.val])
    /\ UNCHANGED bulk
    /\ UNCHANGED conv

\* lines 265-266: the indexes of the existing intents and pages
UploadLists ==
    /\ up.pc = "lists"
    /\ \E s1, s2 \in EngineScripts :
          /\ Budget(s1, s2)
          /\ \E intents_index \in {list_by_name(St, "intents", NoId, s1)} :
              \E pages_index \in {IF intents_index.ok
                                  THEN list_by_name(intents_index.s, "pages", up.flow, s2)
                                  ELSE Fail(intents_index.s)} :
                Step(pages_index,
                     [up EXCEPT !.pc = "pages", !.i = 1,
                                !.intents_index = intents_index.val,
                                !.pages_index = pages_index.val])
    /\ UNCHANGED bulk
    /\ UNCHANGED conv

\* lines 270-284: one iteration of the loop over data["pages"]
UploadPage ==
    /\ up.pc = "pages"
    /\ \E s1, s2 \in EngineScripts :
          LET info == up.doc.pages[up.i]
          IN  /\ Budget(s1, s2)
              /\ \E r \in {upsert_page(St, up.flow, info.name, info.prompts, info.chips,
                                        up.pages_index, s1, s2)} :
                    Step(r, [up EXCEPT !.i = @ + 1,
                                       !.page_name_to_id = Put(@, info.name, r.val),
                                       !.pages_index = Put(@, info.name, r.val)])
    /\ UNCHANGED bulk
    /\ UNCHANGED conv

\* lines 288-292: one iteration of the loop over data["intents"]
UploadIntent ==
    /\ up.pc = "intents"
    /\ \E s1, s2 \in EngineScripts :
          LET info == up.doc.intents[up.i]
          IN  /\ Budget(s1, s2)
              /\ \E r \in {upsert_intent(St, info.name, info.training_phrases,
                                          up.intents_index, s1, s2)} :
                    Step(r, [up EXCEPT !.i = @ + 1,
                                       !.intent_name_to_id = Put(@, info.name, r.val),
                                       !.intents_index = Put(@, info.name, r.val)])
    /\ UNCHANGED bulk
    /\ UNCHANGED conv

\* lines 312-379: one iteration of the loop over routes_by_page
UploadRoutes ==
    /\ up.pc = "routes"
    /\ \E s1 \in EngineScripts :
          LET page == routes_by_page_keys(up.doc)[up.i]
              page_resource == Get(up.page_name_to_id, page)
              routes == transition_routes(routes_of(up.doc, page), up.page_name_to_id,
                                          up.intent_name_to_id, up.dispatcher_name)
              patched(p) == IF p.ok THEN Ok(p.s, NoId) ELSE Fail(p.s)
          IN  /\ Budget(s1, OkScript)
              /\ \E r \in {IF page_resource = NoId \/ routes = << >> THEN Ok(St, NoId)
                            ELSE patched(remote_call(St, "PATCH", "pages", page_resource,
                                                     up.flow, {"transitionRoutes"},
                                                     [transitionRoutes |-> routes], s1))} :
                    Step(r, [up EXCEPT !.i = @ + 1])
    /\ UNCHANGED bulk
    /\ UNCHANGED conv

\* lines 382-388: the flow's start route, then return (True, flow_name)
UploadStart ==
    /\ up.pc = "start"
    /\ \E s1, s2 \in EngineScripts :
          /\ Budget(s1, s2)
          /\ \E r \in {IF up.doc.first_page # None
                        THEN patch_flow_start_route(St, up.flow, up.doc.first_page, s1, s2)
                        ELSE Ok(St, NoId)} :
                /\ Commit(r.s)
                /\ up' = Idle
                /\ ret' = IF r.ok THEN uploaded(r.s, up) ELSE caught(r.s, up)
    /\ UNCHANGED <<call, bulk>>
    /\ UNCHANGED conv

\* ------------------------------------------------------------------------
\* upload_bulk
\* ------------------------------------------------------------------------
\* lines 396-410; json_files is what json_path.glob("dialogflow_*.json") yields
BulkBegin ==
    /\ Quiet
    /\ \E json_files \in {<<"dialogflow_f1.json", "dialogflow_f2.json">>} :
          /\ bulk' = [state |-> "run", json_files |-> json_files,
                      files |-> json_files,
                      successes |-> << >>, failures |-> << >>]
          /\ ret' = Ret("upload_bulk", json_files, "running", FALSE, None)
    /\ reqs' = << >>
    /\ UNCHANGED <<call, remote, cache, tok, faults, up>>
    /\ UNCHANGED conv

\* lines 414-418: the outcome of upload_single_flow is filed; an exception
\* leaving upload_single_flow would leave upload_bulk as well
BulkCollect ==
    /\ bulk.state = "wait"
    /\ up.pc = "idle"
    /\ IF ret.kind = "raise"
       THEN /\ bulk' = BulkOff
            /\ ret' = Ret("upload_bulk", bulk.json_files, "raise", FALSE, None)
       ELSE /\ bulk' = [bulk EXCEPT
                   !.state = "run",
                   !.files = Tail(@),
                   !.successes = IF ret.ok THEN Append(@, ret.val) ELSE @,
                   !.failures = IF ret.ok THEN @
                                ELSE Append(@, <<Head(bulk.files), ret.val>>)]
            /\ ret' = Ret("upload_bulk", bulk.json_files, "running", FALSE, None)
    /\ UNCHANGED <<call, remote, cache, tok, reqs, faults, up>>
    /\ UNCHANGED conv

\* line 432
BulkReturn ==
    /\ bulk.state = "run"
    /\ bulk.files = << >>
    /\ up.pc = "idle"
    /\ ret' = Ret("upload_bulk", bulk.json_files, "return", TRUE,
                  <<bulk.successes, bulk.failures>>)
    /\ bulk' = BulkOff
    /\ UNCHANGED <<call, remote, cache, tok, reqs, faults, up>>
    /\ UNCHANGED conv

\* ------------------------------------------------------------------------
\* DialogflowAutomation.run (src/bulk_automation.py), from the upload phase on
\* ------------------------------------------------------------------------
\* DialogflowAutomation.__init__: self.results is empty and self.uploader is
\* set when the configuration names the agent and the dispatcher.  The
\* pipeline keeps its position and the locals of upload_flows in bulk.
InitPipeline ==
    /\ call = NoCall
    /\ remote \in {EmptyAgent, SeededAgent}
    /\ cache = EmptyCache
    /\ tok = 0
    /\ reqs = << >>
    /\ faults = 0
    /\ up = Idle
    /\ \E uploader \in BOOLEAN :
          bulk = [state |-> "new", uploader |-> uploader,
                  json_files |-> << >>, files |-> << >>,
                  successes |-> << >>, failures |-> << >>,
                  results |-> [csv_failed |-> << >>, uploads_success |-> << >>,
                               uploads_failed |-> << >>],
                  report |-> [conversions |-> << >>, uploads |-> << >>]]
    /\ ret = Ret("none", None, "return", TRUE, NoId)
    /\ conv = ConvOff

\* run, lines 216-236, and upload_flows, lines 127-139: the environment is
\* validated, convert_csvs yields json_files and its failures, and the upload
\* phase starts unless it is skipped or there is nothing to upload
RunBegin ==
    /\ bulk.state = "new"
    /\ \E valid, skip_upload \in BOOLEAN,
          json_files \in {<< >>, <<"dialogflow_f1.json">>,
                          <<"dialogflow_f1.json", "dialogflow_f2.json">>,
                          <<"dialogflow_f2.json", "dialogflow_f1.json">>},
          csv_failures \in {<< >>, <<<<"f0.csv", "error">>>>} :
          /\ bulk' =
                IF ~valid THEN [bulk EXCEPT !.state = "aborted"]
                ELSE IF json_files = << >> \/ skip_upload
                THEN [bulk EXCEPT !.state = "report", !.json_files = json_files,
                                  !.results.csv_failed = csv_failures]
                ELSE IF ~bulk.uploader
                THEN [bulk EXCEPT
                        !.state = "report", !.json_files = json_files,
                        !.results.csv_failed = csv_failures,
                        !.failures = [i \in DOMAIN json_files |->
                                        <<json_files[i], "Uploader not configured">>]]
                ELSE [bulk EXCEPT !.state = "run", !.json_files = json_files,
                                  !.files = json_files,
                                  !.results.csv_failed = csv_failures]
          /\ ret' = IF valid THEN Ret("run", json_files, "running", FALSE, None)
                    ELSE Ret("run", None, "return", FALSE, None)
    /\ UNCHANGED <<call, remote, cache, tok, reqs, faults, up>>
    /\ UNCHANGED conv

\* upload_flows, lines 141-168: the outcome of upload_single_flow is filed in
\* the result lists and in self.results
FlowCollect ==
    /\ bulk.state = "wait"
    /\ up.pc = "idle"
    /\ LET name == Head(bulk.files)
           failed == <<name, ret.val>>
           success == ret.kind = "return" /\ ret.ok
       IN  bulk' = [bulk EXCEPT
                      !.state = IF Tail(bulk.files) = << >> THEN "report" ELSE "run",
                      !.files = Tail(@),
                      !.successes = IF success THEN Append(@, ret.val) ELSE @,
                      !.failures = IF success THEN @ ELSE Append(@, failed),
                      !.results.uploads_success =
                          IF success THEN Append(@, name) ELSE @,
                      !.results.uploads_failed =
                          IF success THEN @ ELSE Append(@, failed)]
    /\ ret' = Ret("run", bulk.json_files, "running", FALSE, None)
    /\ UNCHANGED <<call, remote, cache, tok, reqs, faults, up>>
    /\ UNCHANGED conv

\* run, lines 238-254, and generate_report: the failed conversions and the
\* failed uploads the report lists are those of self.results
RunReport ==
    /\ bulk.state = "report"
    /\ bulk' = [bulk EXCEPT
                  !.state = "done",
                  !.report = [conversions |-> bulk.results.csv_failed,
                              uploads |-> bulk.results.uploads_failed]]
    /\ ret' = Ret("run", bulk.json_files, "return", bulk.json_files # << >>, None)
    /\ UNCHANGED <<call, remote, cache, tok, reqs, faults, up>>
    /\ UNCHANGED conv

SpecPipeline ==
    InitPipeline
    /\ [][\/ RunBegin
          \/ UploadBegin({"dialogflow_f1.json", "dialogflow_f2.json"})
          \/ UploadWebhook \/ UploadLists \/ UploadPage \/ UploadIntent
          \/ UploadRoutes \/ UploadStart
          \/ FlowCollect \/ RunReport]_vars

\* the public upsert methods called one after another on an empty agent
InitUpsert == InitWith({EmptyAgent})

SpecUpsert ==
    InitUpsert
    /\ [][\/ UpsertFlow \/ UpsertWebhook \/ UpsertIntent \/ UpsertPage
          \/ PatchFlowStartRoute \/ NewEngine]_vars

\* uploads, single and in bulk, against an empty or an already populated agent
InitUpload == InitWith({EmptyAgent, SeededAgent})

SpecUpload ==
    InitUpload
    /\ [][\/ UploadBegin({"dialogflow_f1.json", "dialogflow_f2.json"})
          \/ UploadWebhook \/ UploadLists \/ UploadPage \/ UploadIntent
          \/ UploadRoutes \/ UploadStart
          \/ BulkBegin \/ BulkCollect \/ BulkReturn
          \/ NewEngine]_vars

\* upload_single_flow called on a file whose routes may name a page or an
\* intent it lacks
SpecDangling ==
    InitUpload
    /\ [][\/ UploadBegin({"dialogflow_f3.json"})
          \/ UploadWebhook \/ UploadLists \/ UploadPage \/ UploadIntent
          \/ UploadRoutes \/ UploadStart]_vars

\* upload_single_flow called, on an empty agent, on the files of two flows
\* that declare an intent under the same name
SpecShared ==
    InitUpsert
    /\ [][\/ UploadBegin({"dialogflow_f1.json", "dialogflow_f4.json"})
          \/ UploadWebhook \/ UploadLists \/ UploadPage \/ UploadIntent
          \/ UploadRoutes \/ UploadStart]_vars

InitApi ==
    /\ call = NoCall
    /\ remote = EmptyAgent
    /\ cache = EmptyCache
    /\ tok \in 0..MaxTok
    /\ reqs = << >>
    /\ faults = 0
    /\ up = Idle
    /\ bulk = BulkOff
    /\ ret = Ret("none", None, "return", TRUE, NoId)
    /\ conv = ConvOff

\* one _api_request call; self.headers keeps the token the call ends with
DoApiRequest ==
    /\ call = NoCall
    /\ \E script \in Scripts3 :
          \E res \in {api_request(script, tok)} :
              /\ call' = [script |-> script, res |-> res]
              /\ tok' = res.tok
    /\ UNCHANGED <<remote, cache, reqs, faults, up, bulk, ret>>
    /\ UNCHANGED conv

SpecApi == InitApi /\ [][DoApiRequest]_vars

\* ------------------------------------------------------------------------
\* Composition of one route payload (lines 321-370)
\* ------------------------------------------------------------------------
\* largest number of entries of a route's parameters dict
MaxParams == 2

\* the parameters dicts: entries in insertion order, no key twice
ParamDicts ==
    LET ParamKeys == {None, "k", "j"}
        ParamValues == {None, "v"}
    IN  {ps \in UNION {[1..n -> ParamKeys \X ParamValues] : n \in 0..MaxParams} :
            \A i, j \in DOMAIN ps : ps[i][1] = ps[j][1] => i = j}


InitRoute ==
    /\ call = NoCall
    /\ remote = EmptyAgent
    /\ cache = EmptyCache
    /\ tok = 0
    /\ reqs = << >>
    /\ faults = 0
    /\ up = Idle
    /\ bulk = BulkOff
    /\ \E webhook_action \in {None, "tag"}, parameters \in ParamDicts,
          dispatcher_name \in {NoId, 1} :
          ret = Ret("transition_routes",
                    [r |-> Route("P1", "I1", "P2", webhook_action, parameters),
                     dispatcher_name |-> dispatcher_name],
                    "running", FALSE, None)
    /\ conv = ConvOff

\* the body of the loop over a page's routes, run for one route, with the
\* identifiers the upload resolved before it composes routes
ComposeRoute ==
    /\ ret.op = "transition_routes" /\ ret.kind = "running"
    /\ ret' = [ret EXCEPT !.kind = "return", !.ok = TRUE,
                          !.val = transition_routes(
                                      <<ret.arg.r>>,
                                      [nm \in {"P1", "P2"} |-> IF nm = "P1" THEN 1 ELSE 2],
                                      [nm \in {"I1"} |-> 1],
                                      ret.arg.dispatcher_name)]
    /\ UNCHANGED <<call, remote, cache, tok, reqs, faults, up, bulk>>
    /\ UNCHANGED conv

SpecRoute == InitRoute /\ [][ComposeRoute]_vars

\* ------------------------------------------------------------------------
\* The sheet compiler (src/csv_to_dialogflow_json.py): strings and cells
\*   a Python string is the sequence of its characters, each a
\*   one-character string; Nil is Python's None and NaN the float nan that
\*   pandas gives for an empty cell
\* ------------------------------------------------------------------------
Nil == <<"NoneType">>
NaN == <<"float nan">>

NL == "\n"
Quote == "\""
\* the em dash (U+2014), one character
EmDash == "em-dash"

\* str(value)
str(value) ==
    IF value = NaN THEN <<"n", "a", "n">>
    ELSE IF value = Nil THEN <<"N", "o", "n", "e">>
    ELSE value

\* the characters str.strip() removes
Whitespace == {" ", "\t", NL}

RECURSIVE lstrip(_)
lstrip(s) == IF s # << >> /\ Head(s) \in Whitespace THEN lstrip(Tail(s)) ELSE s

RECURSIVE rstrip(_)
rstrip(s) ==
    IF s # << >> /\ s[Len(s)] \in Whitespace
    THEN rstrip(SubSeq(s, 1, Len(s) - 1)) ELSE s

\* s.strip()
strip(s) == rstrip(lstrip(s))

\* s.startswith(prefix)
startswith(s, prefix) == Len(s) >= Len(prefix) /\ SubSeq(s, 1, Len(prefix)) = prefix

\* sub in s
contains(s, sub) == \E i \in 1..(Len(s) - Len(sub) + 1) : startswith(SubSeq(s, i, Len(s)), sub)

\* s.replace(old, new), old not empty
RECURSIVE replace(_, _, _)
replace(s, old, new) ==
    IF s = << >> THEN << >>
    ELSE IF startswith(s, old)
    THEN new \o replace(SubSeq(s, Len(old) + 1, Len(s)), old, new)
    ELSE <<Head(s)>> \o replace(Tail(s), old, new)

\* s.split(sep), sep not empty: the parts between the occurrences, empty
\* parts included
RECURSIVE split(_, _)
split(s, sep) ==
    IF ~contains(s, sep) THEN <<s>>
    ELSE LET i == CHOOSE k \in 1..Len(s) :
                     /\ startswith(SubSeq(s, k, Len(s)), sep)
                     /\ \A j \in 1..(k - 1) : ~startswith(SubSeq(s, j, Len(s)), sep)
         IN  <<SubSeq(s, 1, i - 1)>> \o split(SubSeq(s, i + Len(sep), Len(s)), sep)

\* [x] * n
Repeat(x, n) == [i \in 1..n |-> x]

\* sanitize(value) returning the string as written, not stripped
sanitize_unstripped(value) ==
    IF value = NaN \/ value = Nil THEN Nil
    ELSE IF strip(str(value)) \in
                {<<EmDash>>, <<"-">>, <<"_", "_">>, <<"_">>, << >>,
                 <<"N", "/", "A">>, <<"n", "/", "a">>, <<"n", "a", "n">>,
                 <<"N", "o", "n", "e">>}
    THEN Nil
    ELSE str(value)

\* sanitize(value); the set holds the strings that mean "no value"
sanitize(value) ==
    IF value = NaN \/ value = Nil THEN Nil
    ELSE IF strip(str(value)) \in
                {<<EmDash>>, <<"-">>, <<"_", "_">>, <<"_">>, << >>,
                 <<"N", "/", "A">>, <<"n", "/", "a">>, <<"n", "a", "n">>,
                 <<"N", "o", "n", "e">>}
    THEN Nil
    ELSE strip(str(value))

\* strip_wrapping_quotes(s)
strip_wrapping_quotes(s) ==
    LET unq(t) == IF Len(t) >= 2 /\ t[1] = Quote /\ t[Len(t)] = Quote
                  THEN SubSeq(t, 2, Len(t) - 1) ELSE t
    IN  unq(replace(strip(s), <<Quote, Quote>>, <<Quote>>))

\* parse_chips / parse_next_pages: the strings that mean "nothing"
ChipEmpty == {<<EmDash>>, <<"-">>, <<"_", "_">>, <<"_">>}
NextEmpty == ChipEmpty \cup {<<"N", "/", "A">>, <<"n", "/", "a">>}

\* lines 102-108: duplicates removed, order of first appearance kept
RECURSIVE unique(_)
unique(chips) ==
    IF chips = << >> THEN << >>
    ELSE LET out == unique(SubSeq(chips, 1, Len(chips) - 1))
             c == chips[Len(chips)]
         IN  IF \E i \in DOMAIN out : out[i] = c THEN out ELSE Append(out, c)

\* parse_chips keeping every chip it reads, repeated ones too
parse_chips_repeating(chips_cell) ==
    LET parts(raw) ==
            IF contains(raw, <<NL>>) THEN split(raw, <<NL>>)
            ELSE IF contains(raw, <<";">>) THEN split(raw, <<";">>)
            ELSE <<raw>>
        chip(p) == strip_wrapping_quotes(
                       replace(strip(p), <<Quote, Quote>>, <<Quote>>))
        kept(ps) ==
            SelectSeq([i \in DOMAIN ps |-> IF strip(ps[i]) = << >> THEN << >>
                                           ELSE chip(ps[i])],
                      LAMBDA c : c # << >> /\ c \notin ChipEmpty)
        read(raw) ==
            IF raw = << >> \/ raw \in ChipEmpty THEN << >>
            ELSE kept(parts(raw))
    IN  IF chips_cell = Nil THEN << >> ELSE read(strip(str(chips_cell)))

\* parse_chips(chips_cell)
parse_chips(chips_cell) ==
    LET parts(raw) ==
            IF contains(raw, <<NL>>) THEN split(raw, <<NL>>)
            ELSE IF contains(raw, <<";">>) THEN split(raw, <<";">>)
            ELSE <<raw>>
        chip(p) == strip_wrapping_quotes(
                       replace(strip(p), <<Quote, Quote>>, <<Quote>>))
        kept(ps) ==
            SelectSeq([i \in DOMAIN ps |-> IF strip(ps[i]) = << >> THEN << >>
                                           ELSE chip(ps[i])],
                      LAMBDA c : c # << >> /\ c \notin ChipEmpty)
        read(raw) ==
            IF raw = << >> \/ raw \in ChipEmpty THEN << >>
            ELSE unique(kept(parts(raw)))
    IN  IF chips_cell = Nil THEN << >> ELSE read(strip(str(chips_cell)))

\* lines 155-158: the while loop appending the last target (or None)
RECURSIVE pad(_, _)
pad(cleaned_targets, chips_count) ==
    IF Len(cleaned_targets) < chips_count
    THEN pad(Append(cleaned_targets,
                    IF cleaned_targets # << >>
                    THEN cleaned_targets[Len(cleaned_targets)] ELSE Nil),
             chips_count)
    ELSE cleaned_targets

\* cleaned_targets[:chips_count]
Prefix(seq, n) == SubSeq(seq, 1, IF n < Len(seq) THEN n ELSE Len(seq))

\* parse_next_pages reconciling a mismatch by padding with None
parse_next_pages_blank(cell, chips_count) ==
    LET stripped(parts) ==
            SelectSeq([i \in DOMAIN parts |-> strip(parts[i])], LAMBDA t : t # << >>)
        cleaned(targets) ==
            [i \in DOMAIN targets |->
                IF targets[i] # << >> /\ targets[i] \notin NextEmpty
                THEN targets[i] ELSE Nil]
        reconciled(cleaned_targets) ==
            IF Len(cleaned_targets) = 1
            THEN [targets |-> Repeat(cleaned_targets[1], chips_count), warned |-> FALSE]
            ELSE IF Len(cleaned_targets) = chips_count
            THEN [targets |-> cleaned_targets, warned |-> FALSE]
            ELSE [targets |-> Prefix(cleaned_targets \o Repeat(Nil, chips_count),
                                     chips_count),
                  warned |-> TRUE]
        parsed(s) ==
            IF s = << >> \/ s \in NextEmpty
            THEN [targets |-> Repeat(Nil, chips_count), warned |-> FALSE]
            ELSE IF contains(s, <<NL>>)
            THEN reconciled(cleaned(stripped(split(s, <<NL>>))))
            ELSE IF contains(s, <<"/">>) /\ ~startswith(s, <<"h", "t", "t", "p">>)
            THEN reconciled(cleaned(stripped(split(s, <<"/">>))))
            ELSE [targets |-> Repeat(s, chips_count), warned |-> FALSE]
    IN  IF cell = Nil
        THEN [targets |-> Repeat(Nil, chips_count), warned |-> FALSE]
        ELSE parsed(strip(str(cell)))

\* parse_next_pages(cell, chips_count): the targets returned and whether the
\* mismatch warning was printed
parse_next_pages(cell, chips_count) ==
    LET stripped(parts) ==
            SelectSeq([i \in DOMAIN parts |-> strip(parts[i])], LAMBDA t : t # << >>)
        cleaned(targets) ==
            [i \in DOMAIN targets |->
                IF targets[i] # << >> /\ targets[i] \notin NextEmpty
                THEN targets[i] ELSE Nil]
        reconciled(cleaned_targets) ==
            IF Len(cleaned_targets) = 1
            THEN [targets |-> Repeat(cleaned_targets[1], chips_count), warned |-> FALSE]
            ELSE IF Len(cleaned_targets) = chips_count
            THEN [targets |-> cleaned_targets, warned |-> FALSE]
            ELSE [targets |-> Prefix(pad(cleaned_targets, chips_count), chips_count),
                  warned |-> TRUE]
        parsed(s) ==
            IF s = << >> \/ s \in NextEmpty
            THEN [targets |-> Repeat(Nil, chips_count), warned |-> FALSE]
            ELSE IF contains(s, <<NL>>)
            THEN reconciled(cleaned(stripped(split(s, <<NL>>))))
            ELSE IF contains(s, <<"/">>) /\ ~startswith(s, <<"h", "t", "t", "p">>)
            THEN reconciled(cleaned(stripped(split(s, <<"/">>))))
            ELSE [targets |-> Repeat(s, chips_count), warned |-> FALSE]
    IN  IF cell = Nil
        THEN [targets |-> Repeat(Nil, chips_count), warned |-> FALSE]
        ELSE parsed(strip(str(cell)))

\* ------------------------------------------------------------------------
\* parse_next_pages applied to every cell and chip count
\* ------------------------------------------------------------------------
\* longest next-page cell (characters) and largest chip count
MaxCell == 4
MaxChips == 3

\* the cells: every string over CellChars, and cells the alphabet does not
\* reach (a URL and the N/A sentinels)
NextCells ==
    LET CellChars == {"A", "B", "/", "-", " ", NL}
        SpecialCells ==
            {<<"h", "t", "t", "p", ":", "/", "/", "A">>, <<"N", "/", "A">>,
             <<"n", "/", "a">>, <<"_", "_">>}
    IN  {Nil} \cup SpecialCells \cup UNION {[1..n -> CellChars] : n \in 0..MaxCell}

InitNextPages ==
    /\ call = NoCall
    /\ remote = EmptyAgent
    /\ cache = EmptyCache
    /\ tok = 0
    /\ reqs = << >>
    /\ faults = 0
    /\ up = Idle
    /\ bulk = BulkOff
    /\ \E cell \in NextCells, chips_count \in 1..MaxChips :
          ret = Ret("parse_next_pages", [cell |-> cell, chips_count |-> chips_count],
                    "running", FALSE, None)
    /\ conv = ConvOff

ParseNextPages ==
    /\ ret.op = "parse_next_pages" /\ ret.kind = "running"
    /\ ret' = [ret EXCEPT !.kind = "return", !.ok = TRUE,
                          !.val = parse_next_pages(ret.arg.cell, ret.arg.chips_count)]
    /\ UNCHANGED <<call, remote, cache, tok, reqs, faults, up, bulk>>
    /\ UNCHANGED conv

SpecNextPages == InitNextPages /\ [][ParseNextPages]_vars

\* ------------------------------------------------------------------------
\* The sheet compiler: the parsers of the remaining columns
\* ------------------------------------------------------------------------
\* s.split(sep, 1): the text before and after the first occurrence of sep,
\* which s contains
split1(s, sep) ==
    LET i == CHOOSE k \in 1..Len(s) :
                 /\ startswith(SubSeq(s, k, Len(s)), sep)
                 /\ \A j \in 1..(k - 1) : ~startswith(SubSeq(s, j, Len(s)), sep)
    IN  <<SubSeq(s, 1, i - 1), SubSeq(s, i + Len(sep), Len(s))>>

\* a dict as a function on its keys; d[k] = v
NoDict == [k \in {} |-> Nil]
setitem(d, k, v) == [x \in DOMAIN d \cup {k} |-> IF x = k THEN v ELSE d[x]]

\* parse_params(param_str)
parse_params(param_str) ==
    LET RECURSIVE parse_pairs(_, _)
        parse_pairs(pairs, result) ==
            IF pairs = << >> THEN result
            ELSE LET added(pair) ==
                         IF pair = << >> THEN result
                         ELSE IF contains(pair, <<"=">>)
                         THEN setitem(result, strip(split1(pair, <<"=">>)[1]),
                                      strip(split1(pair, <<"=">>)[2]))
                         ELSE setitem(result, pair, << >>)
                 IN  parse_pairs(Tail(pairs), added(strip(Head(pairs))))
    IN  IF param_str = Nil \/ param_str = << >> THEN NoDict
        ELSE parse_pairs(split(str(param_str), <<",">>), NoDict)

\* parse_trigger_and_example(trigger_raw): (trigger_type, user_example)
parse_trigger_and_example(trigger_raw) ==
    LET User == <<"U", "s", "e", "r", " ">>
        cleaned(example) ==
            replace(replace(replace(replace(example,
                User \o <<"s", "a", "y", "s", " ">>, << >>),
                User \o <<"r", "e", "s", "p", "o", "n", "d", "s", " ",
                          "w", "i", "t", "h", " ">>, << >>),
                User \o <<"d", "e", "n", "i", "e", "s", " ">>, << >>),
                User \o <<"a", "c", "c", "e", "p", "t", "s", " ">>, << >>)
    IN  IF trigger_raw = Nil \/ trigger_raw = << >> THEN <<Nil, Nil>>
        ELSE IF contains(trigger_raw, <<":">>)
        THEN <<strip(split1(trigger_raw, <<":">>)[1]),
               strip_wrapping_quotes(cleaned(strip(split1(trigger_raw, <<":">>)[2])))>>
        ELSE <<<<"I", "n", "t", "e", "n", "t">>, strip_wrapping_quotes(trigger_raw)>>

Range(seq) == {seq[i] : i \in DOMAIN seq}

\* s.lower(), on the letters A-Z
lower(s) ==
    LET UpperCase ==
            <<"A", "B", "C", "D", "E", "F", "G", "H", "I", "J", "K", "L", "M",
              "N", "O", "P", "Q", "R", "S", "T", "U", "V", "W", "X", "Y", "Z">>
        LowerCase ==
            <<"a", "b", "c", "d", "e", "f", "g", "h", "i", "j", "k", "l", "m",
              "n", "o", "p", "q", "r", "s", "t", "u", "v", "w", "x", "y", "z">>
    IN  [i \in DOMAIN s |->
            IF s[i] \in Range(UpperCase)
            THEN LowerCase[CHOOSE k \in DOMAIN UpperCase : UpperCase[k] = s[i]]
            ELSE s[i]]

Digits == <<"0", "1", "2", "3", "4", "5", "6", "7", "8", "9">>

\* the three last steps of slugify and of generate_webhook_tag: characters
\* outside [a-z0-9_] removed, runs of underscores collapsed, underscores
\* stripped from both ends
ident(s) ==
    LET IdentChars ==
            {"a", "b", "c", "d", "e", "f", "g", "h", "i", "j", "k", "l", "m",
             "n", "o", "p", "q", "r", "s", "t", "u", "v", "w", "x", "y", "z",
             "_"} \cup Range(Digits)
        RECURSIVE sub_underscores(_)
        sub_underscores(t) ==
            IF t = << >> THEN << >>
            ELSE IF Head(t) = "_" /\ Len(t) >= 2 /\ t[2] = "_"
            THEN sub_underscores(Tail(t))
            ELSE <<Head(t)>> \o sub_underscores(Tail(t))
        RECURSIVE strip_underscores(_)
        strip_underscores(t) ==
            IF t # << >> /\ Head(t) = "_" THEN strip_underscores(Tail(t))
            ELSE IF t # << >> /\ t[Len(t)] = "_"
            THEN strip_underscores(SubSeq(t, 1, Len(t) - 1))
            ELSE t
    IN  strip_underscores(sub_underscores(SelectSeq(s, LAMBDA c : c \in IdentChars)))

\* slugify(s)
slugify(s) ==
    LET RECURSIVE sub_spaces(_)
        sub_spaces(t) ==
            IF t = << >> THEN << >>
            ELSE IF Head(t) \in Whitespace
            THEN <<"_">> \o sub_spaces(lstrip(t))
            ELSE <<Head(t)>> \o sub_spaces(Tail(t))
    IN  ident(sub_spaces(strip(lower(s))))

\* the longest tag, in words (words[:4])
TagWords == 4

\* generate_webhook_tag(action_text)
generate_webhook_tag(action_text) ==
    LET stopwords ==
            {<<"f", "o", "r">>, <<"t", "h", "e">>, <<"a", "n", "d">>, <<"o", "r">>,
             <<"w", "i", "t", "h">>, <<"f", "r", "o", "m">>, <<"t", "o">>, <<"a">>,
             <<"a", "n">>, <<"i", "n">>, <<"o", "n">>, <<"a", "t">>, <<"o", "f">>}
        word_end(t) ==
            IF \E k \in DOMAIN t : t[k] \in Whitespace
            THEN (CHOOSE k \in DOMAIN t :
                     /\ t[k] \in Whitespace
                     /\ \A j \in 1..(k - 1) : t[j] \notin Whitespace) - 1
            ELSE Len(t)
        \* text.split(): the words between runs of whitespace
        RECURSIVE words_of(_)
        words_of(text) ==
            IF lstrip(text) = << >> THEN << >>
            ELSE <<SubSeq(lstrip(text), 1, word_end(lstrip(text)))>>
                 \o words_of(SubSeq(lstrip(text), word_end(lstrip(text)) + 1,
                                    Len(lstrip(text))))
        \* "_".join(words)
        RECURSIVE join(_)
        join(words) ==
            IF words = << >> THEN << >>
            ELSE IF Len(words) = 1 THEN words[1]
            ELSE words[1] \o <<"_">> \o join(Tail(words))
    IN  IF action_text = Nil \/ action_text = << >> THEN Nil
        ELSE ident(join(Prefix(SelectSeq(words_of(lower(action_text)),
                                         LAMBDA w : w \notin stopwords),
                               TagWords)))

\* ------------------------------------------------------------------------
\* The sheet compiler: convert_single_csv
\*   conv.df is the part of the data frame the loop has read, conv.data the
\*   output structure.  The frames have the required columns and no Step /
\*   Next Step column; their cells are strings or NaN, on which no statement
\*   of the loop body raises.
\* ------------------------------------------------------------------------
\* bool(s) of an optional string
Truthy(s) == s # Nil /\ s # << >>

\* one row of the frame, by column
Row(page_name, intent_name, trigger, bot_prompt, next_page, parameter_set, webhook_action, suggested_chips) ==
    [page_name |-> page_name, intent_name |-> intent_name, trigger |-> trigger,
     bot_prompt |-> bot_prompt, next_page |-> next_page,
     parameter_set |-> parameter_set, webhook_action |-> webhook_action,
     suggested_chips |-> suggested_chips]

\* lines 244-259: the output structure and the two tracking sets
NewConv ==
    [pc |-> "rows", df |-> << >>,
     data |-> [pages |-> NoDict, intents |-> NoDict, routes |-> << >>,
               end_pages |-> << >>, first_page |-> Nil, webhooks |-> NoDict],
     pages_with_routes |-> {}, all_pages |-> {}]

\* "if x not in list: list.append(x)" appending regardless
append_new_always(list, x) == Append(list, x)

\* lines 306-311, 388-389, 404-405: if x not in list: list.append(x)
append_new(list, x) == IF x \in Range(list) THEN list ELSE Append(list, x)

RECURSIVE extend_new(_, _)
extend_new(list, xs) ==
    IF xs = << >> THEN list ELSE extend_new(append_new(list, Head(xs)), Tail(xs))

\* the row's page left out of the pages table
register_page_lost(pages, page, bot_prompt, chips) == pages

\* lines 300-311: the page's entry, created on first use, with the row's
\* prompt and chips added
register_page(pages, page, bot_prompt, chips) ==
    LET updated(pg) ==
            [prompts |-> IF Truthy(bot_prompt)
                         THEN append_new(pg.prompts, bot_prompt) ELSE pg.prompts,
             chips |-> extend_new(pg.chips, chips)]
    IN  setitem(pages, page,
                updated(IF page \in DOMAIN pages THEN pages[page]
                        ELSE [prompts |-> << >>, chips |-> << >>]))

\* the first page set with the alias compared as written
set_first_page_exact(first_page, page) ==
    IF /\ ~Truthy(first_page)
       /\ page \notin {<<"s", "t", "a", "r", "t", "p", "a", "g", "e">>,
                       <<"s", "t", "a", "r", "t", "_", "p", "a", "g", "e">>,
                       <<"s", "t", "a", "r", "t">>}
    THEN page ELSE first_page

\* lines 318-319
set_first_page(first_page, page) ==
    IF /\ ~Truthy(first_page)
       /\ lower(page) \notin {<<"s", "t", "a", "r", "t", "p", "a", "g", "e">>,
                              <<"s", "t", "a", "r", "t", "_", "p", "a", "g", "e">>,
                              <<"s", "t", "a", "r", "t">>}
    THEN page ELSE first_page

\* setdefault(name, {"training_phrases": []}) and the phrases appended
add_phrases(intents, name, phrases) ==
    setitem(intents, name,
            extend_new(IF name \in DOMAIN intents THEN intents[name] ELSE << >>,
                       phrases))

\* a route that leaves out the row's webhook tag
Route5_untagged(r, intent, next_page) ==
    [page |-> r.page, intent |-> intent, next_page |-> next_page,
     webhook_action |-> Nil,
     parameters |-> IF DOMAIN r.param_set = {} THEN Nil ELSE r.param_set]

\* the route of row r (page, webhook_tag, param_set) for an intent and a target
Route5(r, intent, next_page) ==
    [page |-> r.page, intent |-> intent, next_page |-> next_page,
     webhook_action |-> r.webhook_tag,
     parameters |-> IF DOMAIN r.param_set = {} THEN Nil ELSE r.param_set]

\* every chip sent to one fixed page
next_page_value_fixed(next_pages, i) == <<"Z">>

\* line 369: next_pages[i] if i < len(next_pages) else next_pages[0]
next_page_value(next_pages, i) ==
    IF i < Len(next_pages) THEN next_pages[i + 1] ELSE next_pages[1]

\* lines 328-349: a row without chips; the intents and the routes after it.
\* r holds the row's local variables.
plain_route(intents, routes, r) ==
    LET RECURSIVE itoa(_)
        itoa(n) == IF n < 10 THEN <<Digits[n + 1]>>
                   ELSE itoa(n \div 10) \o <<Digits[(n % 10) + 1]>>
        made(intent_name) ==
            [intents |-> add_phrases(intents, intent_name,
                                     IF Truthy(r.user_example)
                                     THEN <<r.user_example>> ELSE << >>),
             routes |-> IF r.next_pages[1] # Nil
                        THEN Append(routes, Route5(r, intent_name, r.next_pages[1]))
                        ELSE routes]
    IN  made(IF Truthy(r.intent_name_raw) THEN r.intent_name_raw
             ELSE <<"I", "n", "t", "e", "n", "t", "_">> \o slugify(r.page)
                  \o <<"_">> \o itoa(r.row_idx))

\* lines 350-384: a row with chips, from chip i (0-based) on
RECURSIVE chip_routes(_, _, _, _)
chip_routes(intents, routes, r, i) ==
    IF i >= Len(r.chips) THEN [intents |-> intents, routes |-> routes]
    ELSE LET made(chip_intent_name, next_page_val) ==
                 chip_routes(
                     add_phrases(intents, chip_intent_name,
                                 <<r.chips[i + 1]>> \o
                                 (IF Truthy(r.user_example)
                                  THEN <<r.user_example>> ELSE << >>)),
                     IF next_page_val # Nil
                     THEN Append(routes, Route5(r, chip_intent_name, next_page_val))
                     ELSE routes,
                     r, i + 1)
         IN  made((IF Truthy(r.intent_name_raw) THEN r.intent_name_raw
                   ELSE <<"I", "n", "t", "e", "n", "t", "_">> \o slugify(r.page))
                  \o <<" ", ":", ":", " ">> \o r.chips[i + 1],
                  next_page_value(r.next_pages, i))

\* lines 268-389: the body of the loop for a row whose page name is present
compile_row(c, page, row, row_idx) ==
    LET body(r, made) ==
            [c EXCEPT
                !.df = Append(@, row),
                !.all_pages = @ \cup {page},
                !.pages_with_routes =
                    IF Len(made.routes) > Len(c.data.routes) THEN @ \cup {page} ELSE @,
                !.data = [pages |-> register_page(@.pages, page, r.bot_prompt, r.chips),
                          intents |-> made.intents,
                          routes |-> made.routes,
                          end_pages |->
                              IF Len(made.routes) = Len(c.data.routes)
                                 /\ Truthy(r.bot_prompt)
                              THEN append_new(@.end_pages, page) ELSE @.end_pages,
                          first_page |-> set_first_page(@.first_page, page),
                          webhooks |->
                              IF Truthy(r.webhook_tag)
                              THEN setitem(@.webhooks, r.webhook_tag,
                                           sanitize(row.webhook_action))
                              ELSE @.webhooks]]
        routed(r) ==
            body(r, IF r.chips = << >>
                    THEN plain_route(c.data.intents, c.data.routes, r)
                    ELSE chip_routes(c.data.intents, c.data.routes, r, 0))
        locals(chips) ==
            [page |-> page, row_idx |-> row_idx,
             intent_name_raw |-> sanitize(row.intent_name),
             bot_prompt |-> sanitize(row.bot_prompt),
             user_example |-> parse_trigger_and_example(sanitize(row.trigger))[2],
             param_set |-> parse_params(sanitize(row.parameter_set)),
             webhook_tag |-> IF Truthy(sanitize(row.webhook_action))
                             THEN generate_webhook_tag(sanitize(row.webhook_action))
                             ELSE Nil,
             chips |-> chips,
             next_pages |-> parse_next_pages(sanitize(row.next_page),
                                             IF chips # << >> THEN Len(chips)
                                             ELSE 1).targets]
    IN  routed(locals(parse_chips(row.suggested_chips)))

\* a second pass that leaves out the test on pages_with_routes
second_pass_all(c, referenced_pages, pages) ==
    LET RECURSIVE pass(_, _)
        pass(d, ps) ==
            IF ps = << >> THEN d
            ELSE pass(IF Head(ps) \notin referenced_pages /\ Head(ps) # d.data.first_page
                      THEN [d EXCEPT !.data.end_pages = append_new(@, Head(ps))]
                      ELSE d,
                      Tail(ps))
    IN  pass(c, pages)

\* lines 402-406: the end states found after the loop, pages being the
\* pages of all_pages in the order the loop over the set visits them
RECURSIVE second_pass(_, _, _)
second_pass(c, referenced_pages, pages) ==
    IF pages = << >> THEN c
    ELSE second_pass(
             IF /\ Head(pages) \notin referenced_pages
                /\ Head(pages) # c.data.first_page
                /\ Head(pages) \notin c.pages_with_routes
             THEN [c EXCEPT !.data.end_pages = append_new(@, Head(pages))]
             ELSE c,
             referenced_pages, Tail(pages))

\* lines 396-399
referenced(routes) ==
    {routes[i].next_page : i \in {j \in DOMAIN routes : Truthy(routes[j].next_page)}}

\* the orders in which a loop can visit a set
Orders(S) ==
    {o \in [1..Cardinality(S) -> S] : \A i, j \in DOMAIN o : i # j => o[i] # o[j]}

\* ------------------------------------------------------------------------
\* convert_single_csv applied to frames of up to MaxRows rows
\* ------------------------------------------------------------------------
MaxRows == 2

\* the rows of the frames: four columns filled in every way, and rows with
\* the other columns filled, a padded page name, a second prompt, an empty
\* chips cell, a target list with a gap, a sentinel page name, sentinel
\* next-page cells with and without chips
Rows ==
    LET PageCells == {NaN, <<"A">>, <<"B">>, <<"S", "t", "a", "r", "t">>}
        PromptCells == {NaN, <<"h", "i">>}
        TargetCells == {NaN, <<"B">>, <<"A", "/", "B">>}
        ChipCells == {<<"-">>, <<"x", NL, "y">>}
    IN  {Row(page_name, NaN, NaN, bot_prompt, next_page, NaN, NaN, suggested_chips) :
            page_name \in PageCells, bot_prompt \in PromptCells,
            next_page \in TargetCells, suggested_chips \in ChipCells}
        \cup
        {Row(<<" ", "A">>, NaN, NaN, <<"y", "o">>, NaN, NaN, NaN, <<"y", NL, "x">>),
         Row(<<"A">>, <<"I">>, <<"T", ":", "e">>, <<"y", "o">>, <<"-", "/", "B">>,
             <<"k", "=", "v">>, <<"d", "o", " ", "i", "t">>, <<"x", NL, "y">>),
         Row(<<"A">>, <<"I">>, <<"e">>, NaN, <<"B">>, <<"k">>, <<"t", "h", "e">>, <<"-">>),
         Row(<<"B">>, NaN, NaN, <<"h", "i">>, <<"A">>, NaN, NaN, NaN),
         Row(<<"s", "t", "a", "r", "t", "_", "p", "a", "g", "e">>, NaN, NaN, <<"h", "i">>,
             <<"A">>, NaN, NaN, <<"-">>),
         Row(<<"-">>, NaN, NaN, <<"h", "i">>, <<"A">>, NaN, NaN, <<"x">>),
         Row(<<"A">>, NaN, NaN, <<"h", "i">>, <<"N", "/", "A">>, NaN, NaN, <<"x", NL, "y">>),
         Row(<<"B">>, <<"I">>, <<"x">>, NaN, <<"N", "o", "n", "e">>, NaN,
             <<"d", "o", " ", "i", "t">>, <<"x">>),
         Row(<<"A">>, NaN, NaN, <<"h", "i">>, <<EmDash>>, NaN, NaN, <<"-">>)}

InitCompile ==
    /\ call = NoCall
    /\ remote = EmptyAgent
    /\ cache = EmptyCache
    /\ tok = 0
    /\ reqs = << >>
    /\ faults = 0
    /\ up = Idle
    /\ bulk = BulkOff
    /\ ret = Ret("none", None, "return", TRUE, NoId)
    /\ conv = NewConv

\* an iteration that does not skip a row without a page name
CompileRow_unskipped ==
    /\ conv.pc = "rows"
    /\ Len(conv.df) < MaxRows
    /\ \E row \in Rows :
          conv' = compile_row(conv, strip(str(row.page_name)), row, Len(conv.df))
    /\ UNCHANGED <<call, remote, cache, tok, reqs, faults, up, bulk, ret>>

\* lines 262-393: one iteration of the loop over the rows
CompileRow ==
    /\ conv.pc = "rows"
    /\ Len(conv.df) < MaxRows
    /\ \E row \in Rows :
          \E page \in {sanitize(row.page_name)} :
              conv' = IF ~Truthy(page) THEN [conv EXCEPT !.df = Append(@, row)]
                      ELSE compile_row(conv, page, row, Len(conv.df))
    /\ UNCHANGED <<call, remote, cache, tok, reqs, faults, up, bulk, ret>>

\* lines 395-406: the frame is exhausted; the second pass over all_pages
CompileFinish ==
    /\ conv.pc = "rows"
    /\ \E pages \in Orders(conv.all_pages) :
          conv' = [second_pass(conv, referenced(conv.data.routes), pages)
                      EXCEPT !.pc = "done"]
    /\ UNCHANGED <<call, remote, cache, tok, reqs, faults, up, bulk, ret>>

SpecCompile == InitCompile /\ [][CompileRow \/ CompileFinish]_vars

\* ------------------------------------------------------------------------
\* sanitize applied to every value, and again to its own result
\* ------------------------------------------------------------------------
\* longest value (characters)
MaxValue == 3

\* the values: a missing cell, None, every string over eight characters, the
\* em-dash and the spellings of "none"
InitSanitize ==
    /\ call = NoCall
    /\ remote = EmptyAgent
    /\ cache = EmptyCache
    /\ tok = 0
    /\ reqs = << >>
    /\ faults = 0
    /\ up = Idle
    /\ bulk = BulkOff
    /\ \E value \in {NaN, Nil, <<EmDash>>, <<" ", EmDash>>, <<"N", "o", "n", "e">>,
                      <<"n", "o", "n", "e">>, <<"N", "O", "N", "E">>,
                      <<"N", "o", "n", "e", " ">>, <<"_", "_", "_", "_">>}
                     \cup UNION {[1..n -> {"n", "N", "a", "A", "/", "_", "-", " "}] :
                                    n \in 0..MaxValue} :
          ret = Ret("sanitize", value, "running", FALSE, None)
    /\ conv = ConvOff

\* sanitize(value)
Sanitize ==
    /\ ret.op = "sanitize" /\ ret.kind = "running"
    /\ ret' = [ret EXCEPT !.kind = "return", !.ok = TRUE, !.val = sanitize(ret.arg)]
    /\ UNCHANGED <<call, remote, cache, tok, reqs, faults, up, bulk>>
    /\ UNCHANGED conv

\* sanitize(sanitize(value)): the result handed to sanitize once more
SanitizeAgain ==
    /\ ret.op = "sanitize" /\ ret.kind = "return"
    /\ ret' = [ret EXCEPT !.kind = "again", !.val = sanitize(ret.val)]
    /\ UNCHANGED <<call, remote, cache, tok, reqs, faults, up, bulk>>
    /\ UNCHANGED conv

SpecSanitize == InitSanitize /\ [][Sanitize \/ SanitizeAgain]_vars

\* ------------------------------------------------------------------------
\* parse_chips applied to cells of up to MaxChipCell characters
\* ------------------------------------------------------------------------
MaxChipCell == 3

\* the cells: a missing cell, None, every string over six characters, and
\* cells holding the tokens sanitize reads as "no value"
InitChips ==
    /\ call = NoCall
    /\ remote = EmptyAgent
    /\ cache = EmptyCache
    /\ tok = 0
    /\ reqs = << >>
    /\ faults = 0
    /\ up = Idle
    /\ bulk = BulkOff
    /\ \E chips_cell \in {NaN, Nil, <<EmDash>>, <<"N", "/", "A">>, <<"n", "/", "a">>,
                           <<"n", "a", "n">>, <<"N", "o", "n", "e">>, <<"_", "_">>,
                           <<"x", NL, "N", "/", "A">>, <<Quote, " ", "x", " ", Quote>>,
                           <<Quote, "x", Quote, NL, "x">>}
                          \cup UNION {[1..n -> {"x", Quote, NL, ";", " ", "-"}] :
                                         n \in 0..MaxChipCell} :
          ret = Ret("parse_chips", chips_cell, "running", FALSE, None)
    /\ conv = ConvOff

\* parse_chips(chips_cell)
ParseChips ==
    /\ ret.op = "parse_chips" /\ ret.kind = "running"
    /\ ret' = [ret EXCEPT !.kind = "return", !.ok = TRUE, !.val = parse_chips(ret.arg)]
    /\ UNCHANGED <<call, remote, cache, tok, reqs, faults, up, bulk>>
    /\ UNCHANGED conv

SpecChips == InitChips /\ [][ParseChips]_vars

\* ------------------------------------------------------------------------
\* The webhook dispatcher (src/dispatcher/app.py)
\*   A request body is its tag (fulfillmentInfo.tag, a string) and its
\*   sessionInfo; a value is given by its type, the keys it has when it is a
\*   dict, and whether it has fulfillmentResponse.messages.
\* ------------------------------------------------------------------------
\* NaturalLanguageMapper.find_handler(action_text); a pattern is a list of
\* alternatives, an alternative w1.*w2 the list of its words (the tags of
\* the model hold no line break, which "." would not match)
find_handler(action_text) ==
    LET
        w_activity == <<"a", "c", "t", "i", "v", "i", "t", "y">>
        w_add == <<"a", "d", "d">>
        w_advice == <<"a", "d", "v", "i", "c", "e">>
        w_analysis == <<"a", "n", "a", "l", "y", "s", "i", "s">>
        w_analyze == <<"a", "n", "a", "l", "y", "z", "e">>
        w_assess == <<"a", "s", "s", "e", "s", "s">>
        w_assignment == <<"a", "s", "s", "i", "g", "n", "m", "e", "n", "t">>
        w_block == <<"b", "l", "o", "c", "k">>
        w_book == <<"b", "o", "o", "k">>
        w_break == <<"b", "r", "e", "a", "k">>
        w_calendar == <<"c", "a", "l", "e", "n", "d", "a", "r">>
        w_check == <<"c", "h", "e", "c", "k">>
        w_conflict == <<"c", "o", "n", "f", "l", "i", "c", "t">>
        w_create == <<"c", "r", "e", "a", "t", "e">>
        w_fetch == <<"f", "e", "t", "c", "h">>
        w_get == <<"g", "e", "t">>
        w_management == <<"m", "a", "n", "a", "g", "e", "m", "e", "n", "t">>
        w_productivity == <<"p", "r", "o", "d", "u", "c", "t", "i", "v", "i",
                            "t", "y">>
        w_rest == <<"r", "e", "s", "t">>
        w_schedule == <<"s", "c", "h", "e", "d", "u", "l", "e">>
        w_session == <<"s", "e", "s", "s", "i", "o", "n">>
        w_show == <<"s", "h", "o", "w">>
        w_study == <<"s", "t", "u", "d", "y">>
        w_suggest == <<"s", "u", "g", "g", "e", "s", "t">>
        w_suggestion == <<"s", "u", "g", "g", "e", "s", "t", "i", "o", "n">>
        w_time == <<"t", "i", "m", "e">>
        w_tip == <<"t", "i", "p">>
        w_upcoming == <<"u", "p", "c", "o", "m", "i", "n", "g">>
        w_workload == <<"w", "o", "r", "k", "l", "o", "a", "d">>
        PATTERNS ==
            <<<<<<<<w_fetch, w_assignment>>, <<w_get, w_assignment>>,
                  <<w_show, w_assignment>>, <<w_upcoming, w_assignment>>>>,
                <<"f", "e", "t", "c", "h", "_", "u", "p", "c", "o", "m", "i",
                  "n", "g", "_", "a", "s", "s", "i", "g", "n", "m", "e", "n",
                  "t", "s">>>>,
              <<<<<<w_create, w_study, w_block>>, <<w_schedule, w_study>>,
                  <<w_book, w_study, w_time>>, <<w_add, w_study, w_session>>>>,
                <<"c", "r", "e", "a", "t", "e", "_", "s", "t", "u", "d", "y",
                  "_", "b", "l", "o", "c", "k">>>>,
              <<<<<<w_check, w_calendar>>, <<w_calendar, w_conflict>>,
                  <<w_conflict, w_check>>, <<w_schedule, w_conflict>>>>,
                <<"c", "h", "e", "c", "k", "_", "c", "a", "l", "e", "n", "d",
                  "a", "r", "_", "c", "o", "n", "f", "l", "i", "c", "t", "s">>>>,
              <<<<<<w_time, w_management, w_tip>>, <<w_productivity, w_tip>>,
                  <<w_study, w_tip>>, <<w_management, w_advice>>>>,
                <<"g", "e", "t", "_", "t", "i", "m", "e", "_", "m", "a", "n",
                  "a", "g", "e", "m", "e", "n", "t", "_", "t", "i", "p", "s">>>>,
              <<<<<<w_analyze, w_workload>>, <<w_workload, w_analysis>>,
                  <<w_assess, w_workload>>, <<w_check, w_workload>>>>,
                <<"a", "n", "a", "l", "y", "z", "e", "_", "w", "o", "r", "k",
                  "l", "o", "a", "d">>>>,
              <<<<<<w_suggest, w_break>>, <<w_break, w_activity>>,
                  <<w_break, w_suggestion>>, <<w_rest, w_activity>>>>,
                <<"s", "u", "g", "g", "e", "s", "t", "_", "b", "r", "e", "a",
                  "k", "_", "a", "c", "t", "i", "v", "i", "t", "i", "e", "s">>>>>>
        RECURSIVE search(_, _)
        search(parts, text) ==
            IF parts = << >> THEN TRUE
            ELSE \E i \in 1..(Len(text) - Len(Head(parts)) + 1) :
                    /\ SubSeq(text, i, i + Len(Head(parts)) - 1) = Head(parts)
                    /\ search(Tail(parts),
                              SubSeq(text, i + Len(Head(parts)), Len(text)))
        matches(k, text_lower) ==
            \E a \in DOMAIN PATTERNS[k][1] : search(PATTERNS[k][1][a], text_lower)
        first(text_lower) ==
            IF \E k \in DOMAIN PATTERNS : matches(k, text_lower)
            THEN PATTERNS[CHOOSE k \in DOMAIN PATTERNS :
                              /\ matches(k, text_lower)
                              /\ \A j \in 1..(k - 1) : ~matches(j, text_lower)][2]
            ELSE IF "_" \in Range(action_text) /\ " " \notin Range(action_text)
            THEN action_text
            ELSE Nil
    IN  IF action_text = << >> THEN Nil ELSE first(lower(action_text))

\* a value: its type, its keys, and whether fulfillmentResponse.messages is there
Value(type, keys, messages) == [type |-> type, keys |-> keys, messages |-> messages]

\* Dispatcher.dispatch(body): the callables dispatch itself invokes (line
\* 245, handler(body); a call that fails binding its arguments included, what
\* a handler calls in turn left out), the value returned, and whether the
\* call raised.  The attributes are those of a WebhookHandlers instance: the six
\* handlers, the two helpers, and of the ones every object has __class__,
\* __eq__ and __doc__.  The random draws of the handlers shape the text and
\* the parameter values of a response, which a value leaves out.
dispatch(body) ==
    LET reads_params ==
            {<<"f", "e", "t", "c", "h", "_", "u", "p", "c", "o", "m", "i", "n", "g", "_", "a", "s", "s", "i", "g", "n", "m", "e", "n", "t", "s">>,
             <<"c", "r", "e", "a", "t", "e", "_", "s", "t", "u", "d", "y", "_", "b", "l", "o", "c", "k">>,
             <<"c", "h", "e", "c", "k", "_", "c", "a", "l", "e", "n", "d", "a", "r", "_", "c", "o", "n", "f", "l", "i", "c", "t", "s">>}
        never_raise ==
            {<<"g", "e", "t", "_", "t", "i", "m", "e", "_", "m", "a", "n", "a", "g", "e", "m", "e", "n", "t", "_", "t", "i", "p", "s">>,
             <<"a", "n", "a", "l", "y", "z", "e", "_", "w", "o", "r", "k", "l", "o", "a", "d">>,
             <<"s", "u", "g", "g", "e", "s", "t", "_", "b", "r", "e", "a", "k", "_", "a", "c", "t", "i", "v", "i", "t", "i", "e", "s">>}
        \* WebhookHandlers._get_params(ctx)
        _get_params ==
            IF body.sessionInfo.type # "dict" \/ "parameters" \notin body.sessionInfo.keys
            THEN Value("dict", {}, FALSE)
            ELSE body.sessionInfo.parameters
        response == Value("dict", {"sessionInfo", "fulfillmentResponse"}, TRUE)
        _default_response == Value("dict", {"fulfillmentResponse"}, TRUE)
        _error_response == Value("dict", {"fulfillmentResponse"}, TRUE)
        called(handler_name) ==
            IF handler_name \in never_raise
            THEN [called |-> <<handler_name>>, result |-> response, raised |-> FALSE]
            ELSE IF handler_name \in reads_params
            THEN [called |-> <<handler_name>>,
                  result |-> IF _get_params.type = "dict" THEN response
                             ELSE _error_response,
                  raised |-> _get_params.type # "dict"]
            ELSE IF handler_name = <<"_", "g", "e", "t", "_", "p", "a", "r", "a", "m", "s">>
            THEN [called |-> <<handler_name>>, result |-> _get_params, raised |-> FALSE]
            ELSE IF handler_name \in {<<"_", "g", "e", "t", "_", "p", "a", "r", "a", "m">>,
                                      <<"_", "_", "c", "l", "a", "s", "s", "_", "_">>}
            THEN [called |-> <<handler_name>>, result |-> _error_response,
                  raised |-> TRUE]
            ELSE IF handler_name = <<"_", "_", "e", "q", "_", "_">>
            THEN [called |-> <<handler_name>>,
                  result |-> Value("NotImplementedType", {}, FALSE), raised |-> FALSE]
            ELSE IF handler_name = <<"_", "_", "d", "o", "c", "_", "_">>
            THEN [called |-> << >>, result |-> _error_response, raised |-> TRUE]
            ELSE [called |-> << >>, result |-> _default_response, raised |-> FALSE]
        \* lines 241-257
        routed(handler_name) ==
            IF handler_name # Nil THEN called(handler_name)
            ELSE [called |-> << >>, result |-> _default_response, raised |-> FALSE]
    IN  routed(find_handler(body.tag))

\* the request bodies: tags the compiler generates, free text, names that
\* are no handler, and every shape of sessionInfo
InitDispatch ==
    /\ call = NoCall
    /\ remote = EmptyAgent
    /\ cache = EmptyCache
    /\ tok = 0
    /\ reqs = << >>
    /\ faults = 0
    /\ up = Idle
    /\ bulk = BulkOff
    /\ \E tag \in {<<>>,
                   <<"f", "e", "t", "c", "h", "_", "u", "p", "c", "o", "m",
                     "i", "n", "g", "_", "a", "s", "s", "i", "g", "n", "m",
                     "e", "n", "t", "s">>,
                   <<"G", "e", "t", " ", "m", "y", " ", "A", "s", "s", "i",
                     "g", "n", "m", "e", "n", "t", "s">>,
                   <<"c", "r", "e", "a", "t", "e", "_", "s", "t", "u", "d",
                     "y", "_", "b", "l", "o", "c", "k">>,
                   <<"s", "c", "h", "e", "d", "u", "l", "e", " ", "s", "t",
                     "u", "d", "y">>,
                   <<"c", "h", "e", "c", "k", "_", "c", "a", "l", "e", "n",
                     "d", "a", "r", "_", "c", "o", "n", "f", "l", "i", "c",
                     "t", "s">>,
                   <<"g", "e", "t", "_", "t", "i", "m", "e", "_", "m", "a",
                     "n", "a", "g", "e", "m", "e", "n", "t", "_", "t", "i",
                     "p", "s">>,
                   <<"s", "t", "u", "d", "y", " ", "t", "i", "p">>,
                   <<"a", "n", "a", "l", "y", "z", "e", "_", "w", "o", "r",
                     "k", "l", "o", "a", "d">>,
                   <<"s", "u", "g", "g", "e", "s", "t", "_", "b", "r", "e",
                     "a", "k", "_", "a", "c", "t", "i", "v", "i", "t", "i",
                     "e", "s">>,
                   <<"d", "o", "_", "i", "t">>,
                   <<"d", "o", " ", "i", "t">>,
                   <<"c", "h", "e", "c", "k", "_", "w", "o", "r", "k", "l",
                     "o", "a", "d">>,
                   <<"_", "g", "e", "t", "_", "p", "a", "r", "a", "m", "s">>,
                   <<"_", "g", "e", "t", "_", "p", "a", "r", "a", "m">>,
                   <<"_", "_", "c", "l", "a", "s", "s", "_", "_">>,
                   <<"_", "_", "e", "q", "_", "_">>,
                   <<"_", "_", "d", "o", "c", "_", "_">>},
          sessionInfo \in
             {[type |-> "absent", keys |-> {}, parameters |-> Value("absent", {}, FALSE)],
              [type |-> "NoneType", keys |-> {}, parameters |-> Value("absent", {}, FALSE)],
              [type |-> "dict", keys |-> {}, parameters |-> Value("absent", {}, FALSE)]}
             \cup {[type |-> "dict", keys |-> {"parameters"}, parameters |-> p] :
                      p \in {Value("NoneType", {}, FALSE), Value("str", {}, FALSE),
                             Value("dict", {}, FALSE), Value("dict", {"date"}, FALSE),
                             Value("dict", {"fulfillmentResponse"}, TRUE)}} :
          ret = Ret("dispatch", [tag |-> tag, sessionInfo |-> sessionInfo],
                    "running", FALSE, None)
    /\ conv = ConvOff

\* Dispatcher.dispatch(body)
Dispatch ==
    /\ ret.op = "dispatch" /\ ret.kind = "running"
    /\ ret' = [ret EXCEPT !.kind = "return", !.ok = TRUE, !.val = dispatch(ret.arg)]
    /\ UNCHANGED <<call, remote, cache, tok, reqs, faults, up, bulk>>
    /\ UNCHANGED conv

SpecDispatch == InitDispatch /\ [][Dispatch]_vars

\* ------------------------------------------------------------------------
\* Properties of _api_request (SpecApi)
\* ------------------------------------------------------------------------
Called3 == call.res.kind # "none"

AllFailing(script) == \A i \in DOMAIN script : IsError(script[i].st)

\* 429, 5xx and transport failures are the transient ones
AllTransient(script) ==
    \A i \in DOMAIN script : script[i].st \in {429, 500, TRANSPORT}

\* C1: whenever all three attempts of a call fail, _api_request raises, and
\* it returns normally only with a response whose status is not an error.
C1_RaisesLastError ==
    Called3 =>
        /\ AllFailing(call.script) => call.res.kind = "raise"
        /\ call.res.kind = "return" => ~IsError(call.res.st)

\* C2: an endpoint answering every attempt with a transient failure gets
\* exactly 3 requests and the call then raises; no call issues more than 3
\* requests.
C2_ThreeAttemptsThenError ==
    Called3 =>
        /\ AllTransient(call.script) =>
              call.res.n = max_retries /\ call.res.kind = "raise"
        /\ call.res.n <= max_retries

\* the requests of a call, in order; each carries the token it was sent with
Requests(res) == SelectSeq(res.ev, LAMBDA e : e.e = "request")

\* a 401 on an attempt that is not the last: after a refresh that succeeds
\* the next attempt is made with the new token; a refresh that fails ends
\* the call with the refresh error
C20_Recovered ==
    \A k \in 1..call.res.n :
        (call.script[k].st = 401 /\ k < max_retries) =>
            IF call.script[k].rf
            THEN /\ call.res.n > k
                 /\ Requests(call.res)[k + 1].v = Requests(call.res)[k].v + 1
            ELSE /\ call.res.kind = "raise" /\ call.res.err = "refresh"
                 /\ call.res.n = k

\* C20 as stated: a 401 is recovered by refresh and retry, and the caller
\* sees an error caused by a 401 only if the credential refresh failed.
C20_ErrorOnlyIfRefreshFails ==
    Called3 =>
        /\ C20_Recovered
        /\ (call.res.kind = "raise" /\ call.res.st = 401) => call.res.err = "refresh"

\* C20 amended: a 401 on the first or second attempt is recovered by refresh
\* and retry with the refreshed credential; the caller sees an error caused
\* by a 401 only if the refresh failed or the third attempt was answered 401.
C20_RefreshAndRetry ==
    Called3 =>
        /\ C20_Recovered
        /\ (call.res.kind = "raise" /\ call.res.st = 401) =>
              \/ call.res.err = "refresh"
              \/ /\ call.res.err = "http" /\ call.res.n = max_retries
                 /\ call.script[max_retries].st = 401
        /\ call.res.kind = "return" => call.res.st # 401

\* a call answered 401 once, refreshed, and answered 200 on the retry
C20_Witness ==
    /\ Called3
    /\ call.script[1].st = 401 /\ call.script[1].rf /\ call.script[2].st = 200
    /\ call.res.kind = "return" /\ call.res.n = 2
    /\ call.res.tok = Requests(call.res)[1].v + 1

\* the events of a call between its n-th request and the next one
Gap(ev, n) ==
    LET at(k) == CHOOSE i \in DOMAIN ev :
                     /\ ev[i].e = "request"
                     /\ Cardinality({j \in 1..i : ev[j].e = "request"}) = k
    IN  SubSeq(ev, at(n) + 1, at(n + 1) - 1)

\* C28: a 429 followed by a successful response within the three attempts
\* is recovered: between the two requests the engine sleeps the seconds of
\* Retry-After (5 without the header), and the caller gets the successful
\* response and no error.
C28_RateLimitRecovered ==
    Called3 =>
        \A n \in 1..(max_retries - 1) :
            (/\ call.res.n >= n
             /\ call.script[n].st = 429 /\ call.script[n + 1].st = 200) =>
                /\ call.res.kind = "return" /\ call.res.st = 200
                /\ call.res.n = n + 1
                /\ Gap(call.res.ev, n) =
                      <<EvSleep(IF call.script[n].ra = RaAbsent THEN 5
                                ELSE call.script[n].ra)>>

\* C29: after a 401 the retry is immediate, with no sleep between the 401
\* and the next attempt; the 401 counts as one of the three attempts.
C29_ImmediateRetry ==
    Called3 =>
        /\ call.res.n <= max_retries
        /\ \A n \in 1..(max_retries - 1) :
              (call.res.n > n /\ call.script[n].st = 401) =>
                  \A i \in DOMAIN Gap(call.res.ev, n) :
                      Gap(call.res.ev, n)[i].e # "sleep"

\* the seconds slept during a call, in order
Sleeps(ev) ==
    LET s == SelectSeq(ev, LAMBDA e : e.e = "sleep") IN [i \in DOMAIN s |-> s[i].v]

\* C30: after a transport failure on attempt n (n = 1, 2) the engine makes
\* attempt n+1 after sleeping 2^n seconds; three transport failures sleep 2
\* and then 4 seconds, and nothing follows the last attempt.
C30_ExponentialBackoff ==
    Called3 =>
        /\ \A n \in 1..(max_retries - 1) :
              (call.res.n >= n /\ call.script[n].st = TRANSPORT) =>
                  /\ call.res.n > n
                  /\ Gap(call.res.ev, n) = <<EvSleep(2 ^ n)>>
        /\ (\A n \in 1..max_retries : call.script[n].st = TRANSPORT) =>
              /\ Sleeps(call.res.ev) = <<2, 4>>
              /\ call.res.ev[Len(call.res.ev)].e = "request"
              /\ call.res.n = max_retries /\ call.res.kind = "raise"

\* three transport failures in a row
C30_Witness ==
    /\ Called3
    /\ \A n \in 1..max_retries : call.script[n].st = TRANSPORT
    /\ Sleeps(call.res.ev) = <<2, 4>>

\* ------------------------------------------------------------------------
\* Properties of an upload whose routes name unknown pages (SpecDangling)
\* ------------------------------------------------------------------------
\* the routes of the owning page the loop of line 312 is at whose target page
\* the document defines
Resolvable(u) ==
    SelectSeq(routes_of(u.doc, routes_by_page_keys(u.doc)[u.i]),
              LAMBDA r : Get(u.page_name_to_id, r.next_page) # NoId)

C21_Step ==
    LET page == routes_by_page_keys(up.doc)[up.i]
        kept == Resolvable(up)
        q == reqs'[Len(reqs')]
    IN  (/\ up.pc = "routes"
         /\ Get(up.page_name_to_id, page) # NoId
         /\ kept # << >>
         /\ Len(kept) < Len(routes_of(up.doc, page)))
        => /\ Len(reqs') = Len(reqs) + 1
           /\ q.m = "PATCH" /\ q.coll = "pages" /\ q.mask = {"transitionRoutes"}
           /\ q.id = Get(up.page_name_to_id, page)
           /\ [i \in DOMAIN q.body.transitionRoutes |->
                  <<q.body.transitionRoutes[i].intent,
                    q.body.transitionRoutes[i].targetPage>>]
              = [i \in DOMAIN kept |->
                  <<Get(up.intent_name_to_id, kept[i].intent),
                    Get(up.page_name_to_id, kept[i].next_page)>>]
           /\ faults' = faults => ret'.kind = "running"

\* an owning page all of whose routes are dropped gets no PATCH and the
\* upload goes on
C21_AllDropped ==
    (/\ up.pc = "routes"
     /\ Get(up.page_name_to_id, routes_by_page_keys(up.doc)[up.i]) # NoId
     /\ Resolvable(up) = << >>)
    => reqs' = reqs /\ ret'.kind = "running"

\* C21: a route whose target page the document does not define is left out,
\* every other route of its owning page still goes, in order, into the one
\* transitionRoutes PATCH of that page, and the upload does not fail for it:
\* a step all of whose requests are answered 200 never ends the upload with a
\* failure.
C21_DanglingRouteSkipped ==
    [][/\ C21_Step
       /\ C21_AllDropped
       /\ (up.pc # "idle" /\ faults' = faults)
             => (ret'.kind = "running" \/ (ret'.kind = "return" /\ ret'.ok))]_vars

\* an upload of the document with dangling routes has returned success after
\* patching P1 with its one resolvable route
C21_Witness ==
    /\ ret.op = "upload_single_flow" /\ ret.kind = "return" /\ ret.ok
    /\ ret.arg.doc = DocDangling
    /\ \E i \in DOMAIN reqs :
          /\ reqs[i].m = "PATCH" /\ reqs[i].coll = "pages"
          /\ reqs[i].mask = {"transitionRoutes"}
          /\ Len(reqs[i].body.transitionRoutes) = 1
    /\ \E p \in DOMAIN remote.pages :
          /\ remote.pages[p].displayName = "P1"
          /\ Len(remote.pages[p].transitionRoutes) = 1

\* positions in the log of one upload: PATCHes of a page's transitionRoutes,
\* upserts of pages and intents, PATCHes of the flow's start route
RoutePatches ==
    {i \in DOMAIN reqs : /\ reqs[i].m = "PATCH" /\ reqs[i].coll = "pages"
                         /\ reqs[i].mask = {"transitionRoutes"}}
ItemUpserts ==
    {i \in DOMAIN reqs : /\ reqs[i].m # "GET"
                         /\ \/ reqs[i].coll = "intents"
                            \/ reqs[i].coll = "pages"
                               /\ reqs[i].mask # {"transitionRoutes"}}
StartPatches ==
    {i \in DOMAIN reqs : reqs[i].m = "PATCH" /\ reqs[i].coll = "flows"}

\* the order of the mutating requests of one upload
C27_Order ==
    /\ \A t \in RoutePatches, u \in ItemUpserts : u < t
    /\ \A t1, t2 \in RoutePatches : reqs[t1].id = reqs[t2].id => t1 = t2
    /\ \A s \in StartPatches, j \in DOMAIN reqs : j > s => reqs[j].m = "GET"

\* the step issues the start-route PATCH of the flow
StartPatched ==
    /\ up.pc = "start"
    /\ Len(reqs') > Len(reqs)
    /\ reqs'[Len(reqs')].m = "PATCH" /\ reqs'[Len(reqs')].coll = "flows"

\* C27: within one upload every transitionRoutes PATCH of a page comes after
\* all page and intent upserts, a page gets at most one such PATCH, the
\* start-route PATCH of the flow is the last mutating request, and it is
\* issued only when every earlier request of the upload was answered 200.
C27_UploadOrder == []C27_Order /\ [][StartPatched => ~up.failed]_vars

\* ------------------------------------------------------------------------
\* Properties of the engine (SpecUpsert, SpecUpload)
\* ------------------------------------------------------------------------
NamesOf(items) == {items[i].displayName : i \in DOMAIN items}

\* the resources of a collection that carry a display name (within a flow,
\* for pages)
Named(rem, coll, flow, nm) ==
    {i \in Listed(rem, coll, flow) : rem[coll][i].displayName = nm}

NoDuplicates(rem) ==
    /\ \A coll \in {"flows", "intents", "webhooks"} :
          \A i, j \in DOMAIN rem[coll] :
             rem[coll][i].displayName = rem[coll][j].displayName => i = j
    /\ \A i, j \in DOMAIN rem.pages :
          (rem.pages[i].flow = rem.pages[j].flow
             /\ rem.pages[i].displayName = rem.pages[j].displayName) => i = j

Patches(log) == SelectSeq(log, LAMBDA q : q.m = "PATCH")
Mutating(log) == SelectSeq(log, LAMBDA q : q.m # "GET")

UploadReturned == ret.op = "upload_single_flow" /\ ret.kind = "return"
UploadSucceeded == UploadReturned /\ ret.ok

NeedsDispatcher(doc) ==
    doc.webhooks # {} \/ \E i \in DOMAIN doc.routes : doc.routes[i].webhook_action # None

\* every display name an upload of the document resolves exists remotely
AllPresent(arg, rem) ==
    /\ arg.doc.loads
    /\ \E f \in Named(rem, "flows", NoId, derived_flow_name(arg.json_path)) :
          \A i \in DOMAIN arg.doc.pages :
             Named(rem, "pages", f, arg.doc.pages[i].name) # {}
    /\ \A i \in DOMAIN arg.doc.intents :
          Named(rem, "intents", NoId, arg.doc.intents[i].name) # {}
    /\ NeedsDispatcher(arg.doc) => Named(rem, "webhooks", NoId, Dispatcher) # {}

NameSets(rem) ==
    [flows |-> NamesOf(rem.flows), intents |-> NamesOf(rem.intents),
     webhooks |-> NamesOf(rem.webhooks),
     pages |-> {<<rem.pages[i].flow, rem.pages[i].displayName>> : i \in DOMAIN rem.pages}]

C3_Inv ==
    faults = 0 =>
        /\ NoDuplicates(remote)
        /\ UploadSucceeded => AllPresent(ret.arg, remote)

C3_Step ==
    (faults' = 0 /\ ret'.op = "upload_single_flow" /\ AllPresent(ret'.arg, remote))
        => /\ NameSets(remote') = NameSets(remote)
           /\ \A coll \in DOMAIN remote : Len(remote'[coll]) = Len(remote[coll])

\* C3: with every remote call succeeding, an upload leaves every display name
\* of its graph on the agent exactly once, and an upload of a graph whose
\* names are all there (a second upload of the graph) creates nothing: the
\* sets of display names of flows, pages, intents and webhooks stay the same
\* and hold no name twice.
C3_Idempotent == [](C3_Inv) /\ [][C3_Step]_vars

\* the second of two successful uploads of the same graph has returned
C3_Witness ==
    /\ UploadSucceeded /\ faults = 0
    /\ ret.arg.again
    /\ ret.arg.doc = DocLinked

\* C4: a create (POST) is issued for a display name only when no resource of
\* the remote collection (of the flow, for pages) carries that name.
C4_Step ==
    \A k \in DOMAIN reqs' :
        reqs'[k].m = "POST" =>
            Named(remote, reqs'[k].coll, reqs'[k].flow, reqs'[k].body.displayName) = {}

C4_CreateOnlyWhenAbsent == [][C4_Step]_vars

\* the cache holds what a successful upsert returned
C5_Inv ==
    /\ (ret.op = "upsert_flow" /\ ret.kind = "return") =>
          (ret.arg \in DOMAIN cache.flows /\ cache.flows[ret.arg] = ret.val)
    /\ (ret.op = "upsert_webhook" /\ ret.kind = "return") =>
          /\ cache_key(ret.arg[1], ret.arg[2]) \in DOMAIN cache.webhooks
          /\ cache.webhooks[cache_key(ret.arg[1], ret.arg[2])] = ret.val

\* a call for a cached name issues no request and returns the cached identifier
C5_Hit ==
    /\ (ret'.op = "upsert_flow" /\ ret'.arg \in DOMAIN cache.flows) =>
          /\ reqs' = << >> /\ ret'.kind = "return"
          /\ ret'.val = cache.flows[ret'.arg]
    /\ (ret'.op = "upsert_webhook"
          /\ cache_key(ret'.arg[1], ret'.arg[2]) \in DOMAIN cache.webhooks) =>
          /\ reqs' = << >> /\ ret'.kind = "return"
          /\ ret'.val = cache.webhooks[cache_key(ret'.arg[1], ret'.arg[2])]

\* an engine instance never drops or changes a cache entry
C5_Keep ==
    ret'.op # "init" =>
        \A c \in DOMAIN cache : \A k \in DOMAIN cache[c] :
            k \in DOMAIN cache'[c] /\ cache'[c][k] = cache[c][k]

\* C5: once upsert_flow(name) has succeeded on an engine instance, every
\* later upsert_flow(name) on it issues no remote request and returns the
\* same identifier; likewise upsert_webhook for the same name and URI.
C5_CachedUpsert == [](C5_Inv) /\ [][C5_Hit /\ C5_Keep]_vars

\* upsert_flow answered from the cache
C5_Witness ==
    /\ ret.op = "upsert_flow" /\ ret.kind = "return"
    /\ reqs = << >>
    /\ ret.val \in DOMAIN remote.flows

\* the webhook lookup is answered and finds the name
HookFound(nm, uri) ==
    /\ cache_key(nm, uri) \notin DOMAIN cache.webhooks
    /\ faults' = faults
    /\ Named(remote, "webhooks", NoId, nm) # {}

C6_Step ==
    ret'.op = "upsert_webhook" =>
        /\ Patches(reqs') = << >>
        /\ \A i \in DOMAIN remote.webhooks : remote'.webhooks[i] = remote.webhooks[i]
        /\ HookFound(ret'.arg[1], ret'.arg[2]) =>
              /\ Mutating(reqs') = << >>
              /\ remote' = remote
              /\ ret'.kind = "return"
              /\ ret'.val \in Named(remote, "webhooks", NoId, ret'.arg[1])

\* C6: when upsert_webhook finds a remote webhook with the display name it
\* issues no POST and no PATCH, the webhook's URI and headers stay as they
\* are whatever URI and headers are requested, and the identifier of the
\* existing webhook is returned.
C6_ExistingWebhookUntouched == [][C6_Step]_vars

\* a lookup found a webhook whose URI differs from the requested one
C6_Witness ==
    /\ ret.op = "upsert_webhook" /\ ret.kind = "return"
    /\ Len(reqs) = 1
    /\ remote.webhooks[ret.val].genericWebService.uri # ret.arg[2]

\* the phrases of a given list (an empty string is no phrase)
Given(training_phrases) == SelectSeq(training_phrases, LAMBDA x : x # "")

\* C7: upsert_intent on a name that exists remotely issues exactly one PATCH
\* with update mask trainingPhrases and all the given phrases and no create;
\* on a name that does not exist, exactly one create with the display name
\* and all the given phrases.
C7_Step ==
    (ret'.op = "upsert_intent" /\ ret'.kind = "return") =>
        LET q == Mutating(reqs')
        IN  /\ Len(q) = 1
            /\ IF Named(remote, "intents", NoId, ret'.arg[1]) # {}
               THEN /\ q[1].m = "PATCH" /\ q[1].mask = {"trainingPhrases"}
                    /\ q[1].id \in Named(remote, "intents", NoId, ret'.arg[1])
                    /\ q[1].body.trainingPhrases = Given(ret'.arg[2])
               ELSE /\ q[1].m = "POST"
                    /\ q[1].body.displayName = ret'.arg[1]
                    /\ q[1].body.trainingPhrases = Given(ret'.arg[2])

C7_IntentPatchOrCreate == [][C7_Step]_vars

\* C8: upsert_page on a name that exists in the flow issues a PATCH with
\* update mask entryFulfillment and no create, the page keeping its display
\* name and transition routes; on a name that does not exist, one create.
C8_Step ==
    (ret'.op = "upsert_page" /\ ret'.kind = "return") =>
        LET q == Mutating(reqs')
            old == Named(remote, "pages", ret'.arg[1], ret'.arg[2])
        IN  /\ Len(q) = 1
            /\ IF old # {}
               THEN /\ q[1].m = "PATCH" /\ q[1].mask = {"entryFulfillment"}
                    /\ q[1].id \in old
                    /\ \A i \in old :
                          /\ remote'.pages[i].displayName = remote.pages[i].displayName
                          /\ remote'.pages[i].transitionRoutes
                                = remote.pages[i].transitionRoutes
               ELSE q[1].m = "POST" /\ q[1].body.displayName = ret'.arg[2]

C8_PagePatchOrCreate == [][C8_Step]_vars

PageNamesOf(doc) == {doc.pages[i].name : i \in DOMAIN doc.pages}

\* the page owns a route of the document whose target is a page of the document
HasValidRoute(doc, page) ==
    \E i \in DOMAIN doc.routes :
        /\ doc.routes[i].page = page
        /\ doc.routes[i].next_page # None
        /\ doc.routes[i].next_page \in PageNamesOf(doc)

\* C9: after a successful upload every page of the graph without a valid
\* route has an empty transition-route list on the agent, whatever the page
\* held before the upload.
C9_EndPagesHaveNoRoutes ==
    UploadSucceeded =>
        \A f \in Named(remote, "flows", NoId, ret.val) :
           \A page \in PageNamesOf(ret.arg.doc) :
              ~HasValidRoute(ret.arg.doc, page) =>
                 \A i \in Named(remote, "pages", f, page) :
                    remote.pages[i].transitionRoutes = << >>

\* upload_single_flow hands its caller a (success, flow name) or a
\* (failure, message) pair and never an exception
C10_Inv ==
    /\ ret.op = "upload_single_flow" =>
          /\ ret.kind # "raise"
          /\ ret.kind = "return" =>
                IF ret.ok THEN ret.val = derived_flow_name(ret.arg.json_path)
                ELSE ret.val = "error"
    /\ ret.op = "upload_bulk" =>
          /\ ret.kind # "raise"
          /\ ret.kind = "return" =>
                Len(ret.val[1]) + Len(ret.val[2]) = Len(ret.arg)

\* upload_bulk files the outcome of an upload and turns to the next file,
\* after a failed upload as after a successful one
C10_Step ==
    (bulk.state = "wait" /\ up.pc = "idle") =>
        /\ bulk'.state = "run"
        /\ bulk'.files = Tail(bulk.files)
        /\ Len(bulk'.successes) + Len(bulk'.failures)
              = Len(bulk.successes) + Len(bulk.failures) + 1
        /\ ~ret.ok => bulk'.failures = Append(bulk.failures, <<Head(bulk.files), ret.val>>)

\* C10: upload_single_flow never raises to its caller, whatever the document
\* and the remote do: it returns (success, flow name) or (failure, message);
\* and upload_bulk goes on to upload every remaining flow after a failed one.
C10_UploadNeverRaises == [](C10_Inv) /\ [][C10_Step]_vars

\* a bulk upload whose first flow failed and whose second flow was uploaded
C10_Witness ==
    /\ ret.op = "upload_bulk" /\ ret.kind = "return"
    /\ ret.val[1] = <<"F2">>
    /\ ret.val[2] = <<<<"dialogflow_f1.json", "error">>>>
    /\ faults = 1

\* the one unconditional route to a page
StartRoute(id) == <<[condition |-> "true", targetPage |-> id]>>

C11_Step ==
    ret'.op = "patch_flow_start_route" =>
        LET flow == ret'.arg[1]
            ids == Named(remote, "pages", flow, ret'.arg[2])
        IN  /\ ids = {} =>
                  /\ ret'.kind = "raise"
                  /\ Patches(reqs') = << >>
                  /\ remote' = remote
            /\ ret'.kind = "return" =>
                  /\ ids # {}
                  /\ \E id \in ids :
                        remote'.flows[flow].transitionRoutes = StartRoute(id)

\* C11: patch_flow_start_route raises, without a PATCH, when no page of the
\* flow carries the first page's name; when it returns, the flow's transition
\* routes are exactly one unconditional route to a page of that name.
C11_StartRoute == [][C11_Step]_vars

\* ------------------------------------------------------------------------
\* Properties of the route composition (SpecRoute)
\* ------------------------------------------------------------------------
\* the entries of a parameters dict with a non-empty key and value
NonEmptyParams(parameters) ==
    SelectSeq(parameters, LAMBDA kv : kv[1] # None /\ kv[2] # None)

\* C12: the composed route payload has a trigger-fulfillment block exactly
\* when the route has a webhook action and the dispatcher webhook exists, or
\* has a parameter with non-empty key and value; with a webhook action the
\* block carries the dispatcher's identifier and the action as tag; its
\* set-parameter actions are the non-empty parameters, one each.
C12_TriggerFulfillment ==
    (ret.op = "transition_routes" /\ ret.kind = "return") =>
        LET r == ret.arg.r
            with_webhook == r.webhook_action # None /\ ret.arg.dispatcher_name # NoId
            block == ret.val[1].triggerFulfillment
        IN  /\ Len(ret.val) = 1
            /\ block # << >> <=> (with_webhook \/ NonEmptyParams(r.parameters) # << >>)
            /\ block # << >> =>
                  /\ Len(block) = 1
                  /\ with_webhook =>
                        /\ block[1].webhook = ret.arg.dispatcher_name
                        /\ block[1].tag = r.webhook_action
                  /\ ~with_webhook => block[1].webhook = NoId /\ block[1].tag = None
                  /\ block[1].setParameterActions = NonEmptyParams(r.parameters)

\* a payload composed for a route with a webhook action, a parameter that
\* counts and one that does not
C12_Witness ==
    /\ ret.op = "transition_routes" /\ ret.kind = "return"
    /\ ret.arg.r.webhook_action = "tag" /\ ret.arg.dispatcher_name # NoId
    /\ Len(ret.arg.r.parameters) = 2
    /\ Len(ret.val[1].triggerFulfillment[1].setParameterActions) = 1

\* ------------------------------------------------------------------------
\* Properties of parse_next_pages (SpecNextPages)
\* ------------------------------------------------------------------------
\* a cell that names no target at all
NoTarget(cell) == cell = Nil \/ strip(cell) = << >> \/ strip(cell) \in NextEmpty

\* a cell read as one target: no separator, or a URL
OneTarget(cell) ==
    /\ ~contains(strip(cell), <<NL>>)
    /\ \/ ~contains(strip(cell), <<"/">>)
       \/ startswith(strip(cell), <<"h", "t", "t", "p">>)

\* the targets a separated cell resolves to: its non-blank parts, trimmed, a
\* sentinel part standing for no target
Resolved(cell) ==
    LET sep == IF contains(strip(cell), <<NL>>) THEN <<NL>> ELSE <<"/">>
        parts == split(strip(cell), sep)
        named == SelectSeq(parts, LAMBDA t : strip(t) # << >>)
    IN  [i \in DOMAIN named |->
            IF strip(named[i]) \in NextEmpty THEN Nil ELSE strip(named[i])]

\* the last target repeated (none when there is no target) up to n, cut to n
Reconciled(R, n) ==
    [i \in 1..n |-> IF i <= Len(R) THEN R[i]
                    ELSE IF R = << >> THEN Nil ELSE R[Len(R)]]

\* C18: parse_next_pages returns exactly n targets for every cell and every
\* n >= 1: one resolved target goes to all n chips, n resolved targets pair
\* by position, any other count is filled with the last resolved target
\* (none when there is none) and cut to n, with the warning and no failure;
\* the cell A/B with 3 chips yields A, B, B.
C18_ExactlyN ==
    (ret.op = "parse_next_pages" /\ ret.kind = "return") =>
        LET cell == ret.arg.cell
            n == ret.arg.chips_count
            T == ret.val.targets
        IN  /\ Len(T) = n
            /\ NoTarget(cell) => T = Repeat(Nil, n) /\ ~ret.val.warned
            /\ (~NoTarget(cell) /\ OneTarget(cell)) =>
                  T = Repeat(strip(cell), n) /\ ~ret.val.warned
            /\ (~NoTarget(cell) /\ ~OneTarget(cell)) =>
                  /\ Len(Resolved(cell)) = 1 => T = Repeat(Resolved(cell)[1], n)
                  /\ Len(Resolved(cell)) = n => T = Resolved(cell)
                  /\ T = Reconciled(Resolved(cell), n)
                  /\ ret.val.warned <=> Len(Resolved(cell)) \notin {1, n}
            /\ (cell = <<"A", "/", "B">> /\ n = 3) => T = <<<<"A">>, <<"B">>, <<"B">>>>

\* the cell A/B parsed for 3 chips, with the warning
C18_Witness ==
    /\ ret.op = "parse_next_pages" /\ ret.kind = "return"
    /\ ret.arg.cell = <<"A", "/", "B">> /\ ret.arg.chips_count = 3
    /\ ret.val.targets = <<<<"A">>, <<"B">>, <<"B">>>>
    /\ ret.val.warned

\* ------------------------------------------------------------------------
\* Properties of convert_single_csv (SpecCompile)
\* ------------------------------------------------------------------------
Compiled == conv.pc = "done"

Targets == referenced(conv.data.routes)

Owners == {conv.data.routes[i].page : i \in DOMAIN conv.data.routes}

\* C13: after compiling, every route with a target names as its target a
\* page that is a key of the pages table.
C13_TargetsArePages ==
    Compiled => \A t \in Targets : t \in DOMAIN conv.data.pages

\* C14: after compiling, no page listed in end_pages is the owning page of a
\* route, also when several rows reference the same page.
C14_EndPagesOwnNoRoute ==
    Compiled => \A p \in Range(conv.data.end_pages) : p \notin Owners

\* C15: after compiling, every page that appears as a route target and whose
\* own rows produced no valid outgoing route is present in end_pages.
C15_TerminalTargetsAreEnd ==
    Compiled => \A t \in Targets : t \notin Owners => t \in Range(conv.data.end_pages)

\* the row an iteration of the loop has just read, and its chips
LastRow(df) == df[Len(df)]

ChipsOf(row) == parse_chips(row.suggested_chips)

\* the routes an iteration of the loop has appended
Emitted(before, after) == SubSeq(after, Len(before) + 1, Len(after))

C16_Step ==
    (conv.pc = "rows" /\ conv'.pc = "rows" /\ Len(conv'.df) = Len(conv.df) + 1) =>
        /\ Len(conv'.data.routes) >= Len(conv.data.routes)
        /\ SubSeq(conv'.data.routes, 1, Len(conv.data.routes)) = conv.data.routes
        /\ Len(Emitted(conv.data.routes, conv'.data.routes))
              <= Max({1, Len(ChipsOf(LastRow(conv'.df)))})
        /\ \A r \in Range(Emitted(conv.data.routes, conv'.data.routes)) :
              /\ r.next_page # Nil
              /\ r.next_page \in
                    Range(parse_next_pages(
                              sanitize(LastRow(conv'.df).next_page),
                              Max({1, Len(ChipsOf(LastRow(conv'.df)))})).targets)

\* C16: for every row, the compiler emits at most as many routes as the row
\* has chips (a row without chips counting as 1), and the target of each
\* emitted route is one of the targets the next-page parser resolved for
\* the row.
C16_RowRoutes == [][C16_Step]_vars

\* a row with two chips of which one has a target: one route emitted
C16_Witness ==
    /\ conv.pc = "rows" /\ Len(conv.df) = 1
    /\ Len(ChipsOf(conv.df[1])) = 2
    /\ sanitize(conv.df[1].page_name) # Nil
    /\ Len(conv.data.routes) = 1

\* the prompts, and the chips, of the rows that reference page p, in the
\* order of the rows
RECURSIVE PromptsSeen(_, _)
PromptsSeen(df, p) ==
    IF df = << >> THEN << >>
    ELSE (IF sanitize(Head(df).page_name) = p /\ sanitize(Head(df).bot_prompt) # Nil
          THEN <<sanitize(Head(df).bot_prompt)>> ELSE << >>)
         \o PromptsSeen(Tail(df), p)

RECURSIVE ChipsSeen(_, _)
ChipsSeen(df, p) ==
    IF df = << >> THEN << >>
    ELSE (IF sanitize(Head(df).page_name) = p THEN ChipsOf(Head(df)) ELSE << >>)
         \o ChipsSeen(Tail(df), p)

FirstAt(seen, x) == CHOOSE i \in DOMAIN seen : seen[i] = x /\ \A j \in 1..(i - 1) : seen[j] # x

\* list holds each element of seen once, ordered by first appearance
FirstAppearances(list, seen) ==
    /\ \A i, j \in DOMAIN list : i # j => list[i] # list[j]
    /\ Range(list) = Range(seen)
    /\ \A i, j \in DOMAIN list : i < j => FirstAt(seen, list[i]) < FirstAt(seen, list[j])

\* C17: no page's prompt list and no page's chip list contains a duplicate,
\* and the elements are in the order of their first appearance across the
\* rows that reference the page.
C17_NoDuplicatesInOrder ==
    conv.pc \in {"rows", "done"} =>
        \A p \in DOMAIN conv.data.pages :
            /\ FirstAppearances(conv.data.pages[p].prompts, PromptsSeen(conv.df, p))
            /\ FirstAppearances(conv.data.pages[p].chips, ChipsSeen(conv.df, p))

\* two rows of page A, the second repeating a chip and a prompt of the first
\* and adding new ones
C17_Witness ==
    /\ conv.pc = "done" /\ Len(conv.df) = 2
    /\ <<"A">> \in DOMAIN conv.data.pages
    /\ Len(ChipsSeen(conv.df, <<"A">>)) = 4
    /\ conv.data.pages[<<"A">>].chips = <<<<"x">>, <<"y">>>>
    /\ Len(PromptsSeen(conv.df, <<"A">>)) = 2
    /\ Len(conv.data.pages[<<"A">>].prompts) = 2

\* the rows whose page name is present and is not a start-page alias
Eligible(row) ==
    /\ sanitize(row.page_name) # Nil
    /\ lower(sanitize(row.page_name)) \notin
          {<<"s", "t", "a", "r", "t", "p", "a", "g", "e">>,
           <<"s", "t", "a", "r", "t", "_", "p", "a", "g", "e">>,
           <<"s", "t", "a", "r", "t">>}

Earliest(df) ==
    IF \E i \in DOMAIN df : Eligible(df[i])
    THEN sanitize(df[CHOOSE i \in DOMAIN df :
                         Eligible(df[i]) /\ \A j \in 1..(i - 1) : ~Eligible(df[j])].page_name)
    ELSE Nil

C19_Inv == conv.pc \in {"rows", "done"} => conv.data.first_page = Earliest(conv.df)

C19_Keep ==
    (conv.pc = "rows" /\ conv.data.first_page # Nil) =>
        conv'.data.first_page = conv.data.first_page

\* C19: first_page is the page name of the earliest row whose page name is
\* present and is not a start-page alias (startpage, start_page, start, in
\* any case); once set no later row changes it; it is null when there is no
\* such row.
C19_FirstPage == []C19_Inv /\ [][C19_Keep]_vars

\* a frame whose first row is the page Start and whose second row is page A
C19_Witness ==
    /\ conv.pc = "done" /\ Len(conv.df) = 2
    /\ sanitize(conv.df[1].page_name) = <<"S", "t", "a", "r", "t">>
    /\ conv.data.first_page = <<"A">>

\* the pages the rows of the frame name
PagesSeen(df) ==
    {sanitize(df[i].page_name) : i \in {j \in DOMAIN df : Truthy(sanitize(df[j].page_name))}}

\* the pages the second pass has to add
Leftover ==
    {p \in PagesSeen(conv.df) :
        /\ p \notin Targets
        /\ p # conv.data.first_page
        /\ p \notin Owners
        /\ p \notin Range(conv.data.end_pages)}

C26_Step ==
    (conv.pc = "rows" /\ conv'.pc = "done") =>
        /\ SubSeq(conv'.data.end_pages, 1, Len(conv.data.end_pages)) = conv.data.end_pages
        /\ Range(conv'.data.end_pages) = Range(conv.data.end_pages) \cup Leftover
        /\ Len(conv'.data.end_pages) = Len(conv.data.end_pages) + Cardinality(Leftover)
        /\ conv'.data.routes = conv.data.routes
        /\ conv'.data.first_page = conv.data.first_page

\* C26: the second pass appends to end_pages exactly the pages named by the
\* rows that are no route's target, are not the first page, own no route and
\* are not listed yet, each once; it appends no page that owns a route and
\* never the first page.
C26_SecondPass == [][C26_Step]_vars

\* the compiler is done and end_pages holds a page none of whose rows has a bot
\* prompt (only the second pass lists such a page), while a page that owns a
\* route and the first page were left out
C26_Witness ==
    /\ Compiled
    /\ \E p \in Range(conv.data.end_pages) :
          \A i \in DOMAIN conv.df :
              sanitize(conv.df[i].page_name) = p => ~Truthy(sanitize(conv.df[i].bot_prompt))
    /\ \E q \in Owners : q \notin Range(conv.data.end_pages)
    /\ Truthy(conv.data.first_page)
    /\ conv.data.first_page \notin Range(conv.data.end_pages)

\* the loop has just processed a row that names a page and carries a
\* webhook-action text
ActionRow ==
    /\ conv.pc = "rows" /\ conv'.pc = "rows" /\ Len(conv'.df) = Len(conv.df) + 1
    /\ Truthy(sanitize(LastRow(conv'.df).page_name))
    /\ Truthy(sanitize(LastRow(conv'.df).webhook_action))

\* the routes of the row carry the tag of the row's text
C25_RoutesTagged ==
    ActionRow =>
        \A r \in Range(Emitted(conv.data.routes, conv'.data.routes)) :
            r.webhook_action
                = generate_webhook_tag(sanitize(LastRow(conv'.df).webhook_action))

\* the webhooks table holds the text under its tag, and no other key is new
C25_Entry(tag, text) ==
    /\ tag \in DOMAIN conv'.data.webhooks
    /\ conv'.data.webhooks[tag] = text
    /\ DOMAIN conv'.data.webhooks = DOMAIN conv.data.webhooks \cup {tag}

\* C25 as stated: every row with a webhook-action text gives its routes the
\* tag of that text and leaves the webhooks table with the entry of that tag,
\* so two rows with the same text share one tag and one entry.
C25_OneTagOneEntry ==
    [][C25_RoutesTagged
       /\ (ActionRow =>
              C25_Entry(generate_webhook_tag(sanitize(LastRow(conv'.df).webhook_action)),
                        sanitize(LastRow(conv'.df).webhook_action)))]_vars

\* C25 amended: the routes carry the tag of the text; when the tag is not
\* empty the webhooks table holds the entry of that tag, when it is empty the
\* table is left as it was.
C25_TagDeterminism ==
    [][C25_RoutesTagged
       /\ (ActionRow =>
              IF generate_webhook_tag(sanitize(LastRow(conv'.df).webhook_action)) # << >>
              THEN C25_Entry(
                       generate_webhook_tag(sanitize(LastRow(conv'.df).webhook_action)),
                       sanitize(LastRow(conv'.df).webhook_action))
              ELSE conv'.data.webhooks = conv.data.webhooks)]_vars

\* two rows with the same text have been compiled: both routes carry the one
\* tag and the table holds one entry
C25_Witness ==
    /\ Len(conv.df) = 2
    /\ conv.df[1].webhook_action = <<"d", "o", " ", "i", "t">>
    /\ conv.df[2].webhook_action = conv.df[1].webhook_action
    /\ Len(conv.data.routes) = 2
    /\ \A i \in DOMAIN conv.data.routes :
          conv.data.routes[i].webhook_action = <<"d", "o", "_", "i", "t">>
    /\ DOMAIN conv.data.webhooks = {<<"d", "o", "_", "i", "t">>}

\* ------------------------------------------------------------------------
\* Properties of sanitize (SpecSanitize)
\* ------------------------------------------------------------------------
Sanitized == ret.op = "sanitize" /\ ret.kind # "running"

\* the value is a blank string
Blank(value) == value \notin {NaN, Nil} /\ \A i \in DOMAIN value : value[i] \in Whitespace

\* C23: sanitize returns absent for the em-dash, the hyphen, one or two
\* underscores, the empty or a blank string, N/A, n/a, nan, None and an absent
\* input; every other value comes back stripped; sanitize applied to its own
\* result returns that result.
C23_Inv ==
    Sanitized =>
        /\ (\/ ret.arg \in {NaN, Nil, <<EmDash>>, <<"-">>, <<"_">>, <<"_", "_">>,
                             <<"N", "/", "A">>, <<"n", "/", "a">>, <<"n", "a", "n">>,
                             <<"N", "o", "n", "e">>}
             \/ Blank(ret.arg))
            => ret.val = Nil
        /\ ret.kind = "return" /\ ret.val # Nil => ret.val = strip(ret.arg)

C23_Again == (ret.kind = "return" /\ ret'.kind = "again") => ret'.val = ret.val

C23_SentinelsAndIdempotence == []C23_Inv /\ [][C23_Again]_vars

\* sanitize has been applied twice to a padded value that is no sentinel
C23_Witness ==
    /\ ret.op = "sanitize" /\ ret.kind = "again"
    /\ ret.arg = <<" ", "a", " ">>
    /\ ret.val = <<"a">>

\* C24: sanitize returns absent for every upper/lower-case spelling of n/a,
\* none and nan and for every run of underscores.
C24_CaseInsensitive ==
    (/\ Sanitized /\ ret.kind = "return" /\ ret.arg \notin {NaN, Nil}
     /\ \/ lower(strip(ret.arg)) \in {<<"n", "/", "a">>, <<"n", "o", "n", "e">>,
                                       <<"n", "a", "n">>}
        \/ strip(ret.arg) # << >> /\ \A i \in DOMAIN strip(ret.arg) : strip(ret.arg)[i] = "_")
    => ret.val = Nil

\* ------------------------------------------------------------------------
\* Properties of the pipeline (SpecPipeline)
\* ------------------------------------------------------------------------
\* a run has handed files to the upload phase and produced its report
Reported == bulk.state = "done" /\ bulk.json_files # << >>

\* the files of the failure list, the flows of the success list
FailedFiles == {bulk.failures[i][1] : i \in DOMAIN bulk.failures}
UploadedFlows == Range(bulk.successes)

\* every file handed over is in exactly one of the two lists, once
C22_Partition ==
    /\ Len(bulk.successes) + Len(bulk.failures) = Len(bulk.json_files)
    /\ \A i \in DOMAIN bulk.json_files :
          (bulk.json_files[i] \in FailedFiles)
              # (derived_flow_name(bulk.json_files[i]) \in UploadedFlows)

\* C22: after a run whose upload phase was entered, every flow file handed
\* to the phase is in exactly one of the success and failure lists, and the
\* report lists every failed file with its reason.
C22_ReportComplete ==
    (Reported /\ bulk.files = << >> /\ Len(bulk.successes) + Len(bulk.failures) > 0)
    => /\ C22_Partition
       /\ bulk.report.uploads = bulk.failures

\* ------------------------------------------------------------------------
\* Further properties of an upload (SpecDangling)
\* ------------------------------------------------------------------------
\* the webhook step of an upload that goes on
C31_WebhookStep ==
    (up.pc = "webhook" /\ up'.pc # "idle") =>
        /\ (up'.dispatcher_name # NoId) <=> NeedsDispatcher(up.doc)
        /\ NeedsDispatcher(up.doc) =>
              /\ up'.dispatcher_name \in DOMAIN remote'.webhooks
              /\ remote'.webhooks[up'.dispatcher_name].displayName = Dispatcher
        /\ ~NeedsDispatcher(up.doc) => reqs' = reqs /\ remote' = remote

\* the routes a PATCH of a page carries for graph routes with a webhook action
C31_RouteStep ==
    (up.pc = "routes" /\ Len(reqs') > Len(reqs)) =>
        \A i \in DOMAIN Resolvable(up) :
            Resolvable(up)[i].webhook_action # None =>
                LET trig == reqs'[Len(reqs')].body.transitionRoutes[i].triggerFulfillment
                IN  /\ trig # << >>
                    /\ trig[1].tag = Resolvable(up)[i].webhook_action
                    /\ trig[1].webhook \in DOMAIN remote.webhooks
                    /\ remote.webhooks[trig[1].webhook].displayName = Dispatcher

\* C31: the upload sets up the Dispatcher webhook exactly when a route of the
\* graph carries a webhook action or the graph's webhooks table is not empty,
\* and every composed route whose graph route carries a webhook action refers
\* to a Dispatcher webhook the agent holds.
C31_DispatcherWhenNeeded == [][C31_WebhookStep /\ C31_RouteStep]_vars

\* a page has been patched with a route that refers to the Dispatcher, and an
\* upload of a graph with a webhooks table but no webhook action has set the
\* Dispatcher up as well
C31_Witness ==
    /\ ret.op = "upload_single_flow" /\ ret.kind = "running"
    /\ ret.arg.doc = DocDangling
    /\ up.pc = "lists" /\ up.dispatcher_name # NoId
    /\ \E p \in DOMAIN remote.pages :
          \E i \in DOMAIN remote.pages[p].transitionRoutes :
              /\ remote.pages[p].transitionRoutes[i].triggerFulfillment # << >>
              /\ remote.pages[p].transitionRoutes[i].triggerFulfillment[1].webhook
                    = up.dispatcher_name

\* the route payloads of the PATCH a step of the routes loop has issued
Composed == reqs'[Len(reqs')].body.transitionRoutes

\* C32: every route payload the upload composes carries an intent reference
\* and a target-page reference that are resolved (not null).
C32_RefsResolved ==
    [][(up.pc = "routes" /\ Len(reqs') > Len(reqs)) =>
          \A i \in DOMAIN Composed :
              Composed[i].intent # NoId /\ Composed[i].targetPage # NoId]_vars

\* ------------------------------------------------------------------------
\* Further properties of the compiler (SpecCompile)
\* ------------------------------------------------------------------------
\* an iteration of the loop has read one more row
RowRead == conv.pc = "rows" /\ conv'.pc = "rows" /\ Len(conv'.df) = Len(conv.df) + 1

\* the cell values that mean "no value"
Sentinels ==
    {<<EmDash>>, <<"-">>, <<"_", "_">>, <<"_">>, << >>, <<"N", "/", "A">>,
     <<"n", "/", "a">>, <<"n", "a", "n">>, <<"N", "o", "n", "e">>}

\* the cell is absent (NaN) or holds a sentinel
AbsentCell(cell) == cell = NaN \/ cell = Nil \/ strip(str(cell)) \in Sentinels

\* name ends with " :: " and the chip
NamesChip(name, chip) ==
    /\ Len(name) >= Len(chip) + 4
    /\ SubSeq(name, Len(name) - Len(chip) - 3, Len(name)) = <<" ", ":", ":", " ">> \o chip

C33_Step ==
    (RowRead /\ AbsentCell(LastRow(conv'.df).next_page)) =>
        /\ conv'.data.routes = conv.data.routes
        /\ Truthy(sanitize(LastRow(conv'.df).page_name)) =>
              IF ChipsOf(LastRow(conv'.df)) = << >>
              THEN /\ DOMAIN conv'.data.intents # {}
                   /\ Truthy(sanitize(LastRow(conv'.df).intent_name)) =>
                          sanitize(LastRow(conv'.df).intent_name) \in DOMAIN conv'.data.intents
              ELSE \A chip \in Range(ChipsOf(LastRow(conv'.df))) :
                      \E name \in DOMAIN conv'.data.intents :
                          /\ NamesChip(name, chip)
                          /\ chip \in Range(conv'.data.intents[name])

\* C33: a row whose next-page cell is absent or a sentinel emits no route,
\* whatever its chips, and the intents of the row (one per chip, or the one
\* intent of a row without chips) are still created.
C33_NoTargetNoRoute == [][C33_Step]_vars

\* a row with two chips and the next-page cell "N/A": two intents, no route
C33_Witness ==
    /\ conv.pc = "rows" /\ Len(conv.df) = 1
    /\ conv.df[1].next_page = <<"N", "/", "A">>
    /\ Len(ChipsOf(conv.df[1])) = 2
    /\ Cardinality(DOMAIN conv.data.intents) = 2
    /\ conv.data.routes = << >>

\* ------------------------------------------------------------------------
\* Properties of parse_chips (SpecChips)
\* ------------------------------------------------------------------------
ChipsParsed == ret.op = "parse_chips" /\ ret.kind = "return"

\* C34: parse_chips never returns a chip that is an empty string or one of
\* the tokens the cell normalizer reads as "no value", never returns a chip
\* twice, and every chip it returns is trimmed and not wrapped in quotes
\* left by a single layer of quoting.
C34_ChipsClean ==
    ChipsParsed =>
        /\ \A i \in DOMAIN ret.val :
              /\ ret.val[i] # << >>
              /\ ret.val[i] \notin Sentinels
              /\ strip(ret.val[i]) = ret.val[i]
        /\ \A i, j \in DOMAIN ret.val : ret.val[i] = ret.val[j] => i = j

\* the chips of page p in the output structure
PageChips(data, p) == IF p \in DOMAIN data.pages THEN data.pages[p].chips ELSE << >>

C35_Step ==
    (/\ RowRead
     /\ LastRow(conv'.df).suggested_chips = NaN
     /\ Truthy(sanitize(LastRow(conv'.df).page_name))) =>
        /\ PageChips(conv'.data, sanitize(LastRow(conv'.df).page_name))
              = PageChips(conv.data, sanitize(LastRow(conv'.df).page_name))
        /\ Cardinality(DOMAIN conv'.data.intents \ DOMAIN conv.data.intents) <= 1
        /\ \A name \in DOMAIN conv'.data.intents \ DOMAIN conv.data.intents :
              ~contains(name, <<" ", ":", ":", " ">>)
        /\ Len(conv'.data.routes) <= Len(conv.data.routes) + 1

\* C35: a row whose chips cell is empty in the input table has no chips:
\* the compiler creates or reuses one intent for it, none named after a
\* chip, emits at most one route, and adds no chip to the row's page.
C35_EmptyCellNoChips == [][C35_Step]_vars

\* the base intent name of a row: the name provided, or one generated from
\* the page
BaseIntent(row) ==
    IF Truthy(sanitize(row.intent_name)) THEN sanitize(row.intent_name)
    ELSE <<"I", "n", "t", "e", "n", "t", "_">> \o slugify(sanitize(row.page_name))

\* the example text of a row
ExampleOf(row) == parse_trigger_and_example(sanitize(row.trigger))[2]

NoRepeat(list) == \A i, j \in DOMAIN list : list[i] = list[j] => i = j

C36_Row(row, before, after) ==
    /\ DOMAIN after \ DOMAIN before \subseteq
          {BaseIntent(row) \o <<" ", ":", ":", " ">> \o chip : chip \in Range(ChipsOf(row))}
    /\ \A chip \in Range(ChipsOf(row)) :
          /\ Cardinality({name \in DOMAIN after :
                             name = BaseIntent(row) \o <<" ", ":", ":", " ">> \o chip}) = 1
          /\ chip \in Range(after[BaseIntent(row) \o <<" ", ":", ":", " ">> \o chip])
          /\ Truthy(ExampleOf(row)) =>
                ExampleOf(row) \in Range(after[BaseIntent(row) \o <<" ", ":", ":", " ">> \o chip])
    /\ \A name \in DOMAIN after : NoRepeat(after[name])

C36_Step ==
    (/\ RowRead
     /\ Truthy(sanitize(LastRow(conv'.df).page_name))
     /\ ChipsOf(LastRow(conv'.df)) # << >>) =>
        C36_Row(LastRow(conv'.df), conv.data.intents, conv'.data.intents)

\* C36: for a row with chips the compiler creates or reuses exactly one
\* intent per chip, named base :: chip with base the intent name provided or
\* the one generated from the page; after the row each of these intents has
\* the chip and, if the row has one, the example among its training phrases,
\* and no list of training phrases holds a phrase twice.
C36_ChipIntents == [][C36_Step]_vars

\* the same row read twice, with two chips and the example "e": the intent
\* of chip x is reused and holds each phrase once
C36_Witness ==
    /\ conv.pc = "rows" /\ Len(conv.df) = 2
    /\ conv.df[1] = conv.df[2]
    /\ ChipsOf(conv.df[1]) = <<<<"x">>, <<"y">>>>
    /\ ExampleOf(conv.df[1]) = <<"e">>
    /\ DOMAIN conv.data.intents =
          {<<"I", " ", ":", ":", " ", "x">>, <<"I", " ", ":", ":", " ", "y">>}
    /\ conv.data.intents[<<"I", " ", ":", ":", " ", "x">>] = <<<<"x">>, <<"e">>>>

\* the rows of a frame that have a page name, each with its index (at)
RECURSIVE Kept(_)
Kept(df) ==
    IF df = << >> THEN << >>
    ELSE Kept(SubSeq(df, 1, Len(df) - 1)) \o
         (IF Truthy(sanitize(df[Len(df)].page_name))
          THEN <<[row |-> df[Len(df)], at |-> Len(df) - 1]>> ELSE << >>)

\* the loop body applied to the kept rows in order, under their own indices
\* or, renumbered, under the indices of a frame that holds only them
RECURSIVE Replay(_, _, _, _)
Replay(c, kept, k, renumbered) ==
    IF k > Len(kept) THEN c
    ELSE Replay(compile_row(c, sanitize(kept[k].row.page_name), kept[k].row,
                            IF renumbered THEN k - 1 ELSE kept[k].at),
                kept, k + 1, renumbered)

C37_Step ==
    (RowRead /\ ~Truthy(sanitize(LastRow(conv'.df).page_name))) =>
        /\ conv'.data = conv.data
        /\ conv'.pages_with_routes = conv.pages_with_routes
        /\ conv'.all_pages = conv.all_pages

\* C37: a row whose page name is absent is skipped with no effect (pages,
\* intents, routes, webhooks, end_pages and first_page are unchanged by it),
\* and the rows after it are processed as if it were not there: the output
\* is that of the frame without the row.
C37_SkippedRow ==
    /\ [][C37_Step]_vars
    /\ [](conv.pc = "rows" => conv.data = Replay(NewConv, Kept(conv.df), 1, TRUE).data)

\* C37 amended: a row whose page name is absent is skipped with no effect,
\* and the rows after it are processed as if it were not there except that
\* they keep their own row index, which the intent names generated for rows
\* without chips carry.
C37_SkippedRowIndexed ==
    /\ [][C37_Step]_vars
    /\ [](conv.pc = "rows" => conv.data = Replay(NewConv, Kept(conv.df), 1, FALSE).data)

\* a row without a page name, then a row of page A without chips and
\* without an intent name: its intent is Intent_a_1
C37_Witness ==
    /\ conv.pc = "rows" /\ Len(conv.df) = 2
    /\ ~Truthy(sanitize(conv.df[1].page_name))
    /\ sanitize(conv.df[2].page_name) = <<"A">>
    /\ DOMAIN conv.data.intents = {<<"I", "n", "t", "e", "n", "t", "_", "a", "_", "1">>}

\* C40: after compiling any sequence of rows, every route whose
\* webhook_action is a non-empty tag has that tag as a key of the webhooks
\* table, and every name in end_pages, and first_page when it is not null,
\* is a key of the pages table.
C40_TablesClosed ==
    conv.pc \in {"rows", "done"} =>
        /\ \A i \in DOMAIN conv.data.routes :
              Truthy(conv.data.routes[i].webhook_action) =>
                  conv.data.routes[i].webhook_action \in DOMAIN conv.data.webhooks
        /\ \A page \in Range(conv.data.end_pages) : page \in DOMAIN conv.data.pages
        /\ conv.data.first_page # Nil => conv.data.first_page \in DOMAIN conv.data.pages

\* a compiled frame with a tagged route, an end page and a first page
C40_Witness ==
    /\ Compiled
    /\ \E i \in DOMAIN conv.data.routes : Truthy(conv.data.routes[i].webhook_action)
    /\ conv.data.end_pages # << >>
    /\ conv.data.first_page # Nil

\* remote intent k holds exactly the training phrases a document of the
\* file declares for it, and the file's flow is on the agent
DeclaredBy(json_path, k) ==
    /\ \E j \in DOMAIN remote.flows :
          remote.flows[j].displayName = derived_flow_name(json_path)
    /\ \E doc \in Contents(json_path) : \E i \in DOMAIN doc.intents :
          /\ doc.intents[i].name = remote.intents[k].displayName
          /\ doc.intents[i].training_phrases = remote.intents[k].trainingPhrases

C38_Step ==
    up.pc = "intents" =>
        \A k \in DOMAIN remote.intents :
            (\E json_path \in {"dialogflow_f1.json", "dialogflow_f4.json"} \ {up.json_path} :
                DeclaredBy(json_path, k)) =>
                /\ k \in DOMAIN remote'.intents
                /\ remote'.intents[k].trainingPhrases = remote.intents[k].trainingPhrases

\* C38: uploading a flow does not alter the intents of a flow uploaded
\* before it: a remote intent that holds the training phrases the graph of
\* another uploaded flow declared for it keeps them through every step of
\* the upload.
C38_IntentsKept == [][C38_Step]_vars

\* ------------------------------------------------------------------------
\* Properties of the dispatcher (SpecDispatch)
\* ------------------------------------------------------------------------
Dispatched == ret.op = "dispatch" /\ ret.kind = "return"

\* the six business handlers
BusinessHandlers ==
    {<<"f", "e", "t", "c", "h", "_", "u", "p", "c", "o", "m", "i", "n", "g", "_", "a", "s", "s", "i", "g", "n", "m", "e", "n", "t", "s">>,
     <<"c", "r", "e", "a", "t", "e", "_", "s", "t", "u", "d", "y", "_", "b", "l", "o", "c", "k">>,
     <<"c", "h", "e", "c", "k", "_", "c", "a", "l", "e", "n", "d", "a", "r", "_", "c", "o", "n", "f", "l", "i", "c", "t", "s">>,
     <<"g", "e", "t", "_", "t", "i", "m", "e", "_", "m", "a", "n", "a", "g", "e", "m", "e", "n", "t", "_", "t", "i", "p", "s">>,
     <<"a", "n", "a", "l", "y", "z", "e", "_", "w", "o", "r", "k", "l", "o", "a", "d">>,
     <<"s", "u", "g", "g", "e", "s", "t", "_", "b", "r", "e", "a", "k", "_", "a", "c", "t", "i", "v", "i", "t", "i", "e", "s">>}

\* C39: for every request tag, dispatch invokes at most one callable, that
\* callable is one of the six business handlers, and the value dispatch
\* returns contains fulfillmentResponse.messages, also when the handler
\* raises or no handler matches.
C39_DispatchClosed ==
    Dispatched =>
        /\ Len(ret.val.called) <= 1
        /\ \A i \in DOMAIN ret.val.called : ret.val.called[i] \in BusinessHandlers
        /\ ret.val.result.type = "dict" /\ ret.val.result.messages

====
